---- MODULE Spec2Model ----
(***************************************************************************)
(* Model of the lilypad solver:                                            *)
(*   - the LilypadPayments escrow contract (src/unnamed/part_001), and     *)
(*   - the in-memory solver store with its JSONL logs                      *)
(*     (src/pkg/solver/store/memory/store.go).                             *)
(* The two parts share no state; each has its own specification.           *)
(***************************************************************************)
EXTENDS Integers, Sequences, FiniteSets, Bags, TLC

(***************************************************************************)
(* Bounds of the model.                                                    *)
(***************************************************************************)
\* collateral amounts, fees and job costs range over 1..MaxAmount
MaxAmount == 2
\* at most this many successful calls are made outside the settlement protocol
MaxStray == 1
\* tokens each party (JC, RP, mediator) holds before any call
PartyFunds == 6

(***************************************************************************)
(* PART 1 -- LilypadPayments                                               *)
(***************************************************************************)

VARIABLES
  tokenAddress,   \* the token contract the payments contract talks to
  escrowAddress,  \* the account _payIn transfers to
  balanceOf,   \* tokenContract.balanceOf: [account -> tokens]
  ledgers,     \* the balances of the other token contracts:
               \* [token address -> [account -> tokens]]
  events,      \* the bag of Payment events emitted so far
  terms,       \* the amounts of the deals the controller settles
  stage,       \* history: where each deal is in the settlement protocol
  escrowIn,    \* history: tokens moved into escrow by calls for a dealId
  escrowOut,   \* history: tokens moved out of escrow by calls for a dealId
  stray,       \* history: successful calls made outside the protocol
  invoked      \* history: the calls that succeeded, with their arguments

payVars ==
  <<tokenAddress, escrowAddress, balanceOf, ledgers, events, terms, stage,
    escrowIn, escrowOut, stray, invoked>>

(***************************************************************************)
(* The variables of the store (PART 2), declared here for the frame        *)
(* conditions of both parts.                                               *)
(***************************************************************************)
VARIABLES
  jobOfferMap,       \* [offer id -> JobOfferContainer]
  resourceOfferMap,  \* [offer id -> ResourceOfferContainer]
  dealMap,           \* [deal id -> DealContainer]
  resultMap,         \* [deal id -> Result]
  matchDecisionMap,  \* [match id -> MatchDecision]
  logFiles,          \* [kind -> the lines of /var/tmp/lilypad_<kind>.jsonl]
  ret,               \* what the last call returned: [op, err]
  held,              \* the records callers hold: [kind, id, record, shared]
  mutex,             \* s.mutex: [w |-> write-locked, r |-> read locks held]
  pc,                \* [caller -> the call it is in: op, arg, at, its error
                     \*            err, what it read (seen), the tables it
                     \*            found (before), what Write returned (werr)]
  applied            \* [kind -> the records the log held at the start, then
                     \*          the records stored in the table by the
                     \*          callers, in the order they were stored]

storeMaps ==
  <<jobOfferMap, resourceOfferMap, dealMap, resultMap, matchDecisionMap>>
lockVars == <<mutex, pc, applied>>
storeVars == <<storeMaps, logFiles, ret, held, lockVars>>

vars == <<payVars, storeVars>>

\* accounts (accountNames, part_001 lines 92-98)
job_creator == "job_creator"
resource_provider == "resource_provider"
mediator == "mediator"
\* owner() of the payments contract: the controller that deployed it.  The
\* contract takes owner() from the Ownable library, which is no part of the
\* sources; no call of the library changes the owner here.
owner == "controller"
\* the account the token contracts keep the collateral in, and the
\* escrow address given to initialize
escrow == "escrow"
\* address(0)
address0 == "0x0"
\* an account that is neither the owner nor a party of a deal
stranger == "stranger"

Parties == {job_creator, resource_provider, mediator}
Accounts == Parties \cup {owner, escrow}
\* the token contracts there are
Tokens == {"token", "token2"}
\* msg.sender of a call
Senders == {owner, stranger}
\* tx.origin of a call
Origins == Parties
DealIds == {1, 2}
Amounts == 1..MaxAmount

PaymentReason ==
  {"PaymentCollateral", "ResultsCollateral", "TimeoutCollateral",
   "JobPayment", "MediationFee"}
PaymentDirection == {"PaidIn", "PaidOut", "Refunded", "Slashed"}

Payment(dealId, payee, amount, reason, direction) ==
  [dealId |-> dealId, payee |-> payee, amount |-> amount,
   reason |-> reason, direction |-> direction]

(***************************************************************************)
(* uint256 amounts are integers, except the result of a cast: 2^256 is     *)
(* beyond the integers of TLC, so uint256(x) is written as the word        *)
(* [wraps, rest] that stands for the number wraps * 2^256 + rest.          *)
(***************************************************************************)
\* uint256(x) of an int256 x: a negative x wraps around to 2^256 + x
ToUint256(x) == [wraps |-> IF x < 0 THEN 1 ELSE 0, rest |-> x]

\* balance >= u for a uint256 word u; a balance is an integer of TLC,
\* hence below 2^256 + rest for every rest in -MaxAmount .. -1
AtLeast(balance, u) == u.wraps = 0 /\ balance >= u.rest

\* the integer a word below 2^256 - MaxAmount holds
Value(u) == CHOOSE n \in {u.rest} : u.wraps = 0

(***************************************************************************)
(* A transaction in progress: ok is FALSE once a require failed (the       *)
(* transaction reverts and nothing of it is kept), bal the token balances, *)
(* ev the events emitted so far, paidIn / paidOut the tokens it moved into *)
(* and out of escrow.                                                      *)
(***************************************************************************)
Begin(bal) ==
  [ok |-> TRUE, bal |-> bal, ev |-> <<>>, paidIn |-> 0, paidOut |-> 0]

Revert(tx) == [tx EXCEPT !.ok = FALSE]

require(tx, cond) == IF tx.ok /\ cond THEN tx ELSE Revert(tx)

onlyOwner(tx, sender) == require(tx, sender = owner)

emit(tx, e) == IF tx.ok THEN [tx EXCEPT !.ev = Append(@, e)] ELSE tx

\* ILilypadToken.transfer as the payments contract uses it: the spender is
\* tx.origin, the receiver the escrow; fails on an insufficient balance.
transfer(tx, origin, to, amount) ==
  IF ~tx.ok THEN tx
  ELSE IF tx.bal[origin] < amount THEN Revert(tx)
  ELSE [tx EXCEPT !.bal = [@ EXCEPT ![origin] = @ - amount,
                                     ![to] = tx.bal[to] + amount],
                  !.paidIn = @ + amount]

\* ILilypadToken.payoutEscrow: moves tokens held by the escrow of the token
\* contract to payWho; fails when the escrow holds less than amount.
payoutEscrow(tx, payWho, amount) ==
  IF ~tx.ok THEN tx
  ELSE IF tx.bal[escrow] < amount THEN Revert(tx)
  ELSE [tx EXCEPT !.bal = [@ EXCEPT ![escrow] = @ - amount,
                                     ![payWho] = tx.bal[payWho] + amount],
                  !.paidOut = @ + amount]

payIn(tx, origin, amount) ==
  transfer(require(tx, tx.bal[origin] >= amount), origin, escrowAddress, amount)

payOut(tx, payWho, amount) ==
  payoutEscrow(require(tx, tx.bal[owner] >= amount), payWho, amount)

\* _payOut of an amount that is the result of a cast
payOutUint256(tx, payWho, u) ==
  LET t1 == require(tx, AtLeast(tx.bal[owner], u))
  IN IF t1.ok THEN payoutEscrow(t1, payWho, Value(u)) ELSE t1

setTokenAddress(bal, sender, newTokenAddress) ==
  require(onlyOwner(Begin(bal), sender), newTokenAddress # address0)

setEscrowAddress(bal, sender, newEscrowAddress) ==
  require(onlyOwner(Begin(bal), sender), newEscrowAddress # address0)

agreeResourceProvider(bal, sender, origin, dealId, rp, timeoutCollateral) ==
  LET t1 == require(Begin(bal), origin = rp)
      t2 == payIn(t1, origin, timeoutCollateral)
  IN emit(t2, Payment(dealId, rp, timeoutCollateral,
                      "TimeoutCollateral", "PaidIn"))

agreeJobCreator(bal, sender, origin, dealId, jc, paymentCollateral, timeoutCollateral) ==
  LET t1 == onlyOwner(Begin(bal), sender)
      t2 == payIn(t1, origin, paymentCollateral + timeoutCollateral)
      t3 == emit(t2, Payment(dealId, jc, paymentCollateral,
                             "PaymentCollateral", "PaidIn"))
  IN emit(t3, Payment(dealId, jc, timeoutCollateral,
                      "TimeoutCollateral", "PaidIn"))

addResult(bal, sender, origin, dealId, rp, resultsCollateral, timeoutCollateral) ==
  LET resultsTimeoutDiff == resultsCollateral - timeoutCollateral
      t1 == onlyOwner(Begin(bal), sender)
      t2 == IF resultsTimeoutDiff > 0
              THEN payIn(t1, origin, Value(ToUint256(resultsTimeoutDiff)))
            ELSE IF resultsTimeoutDiff < 0
              THEN payOutUint256(t1, rp, ToUint256(resultsTimeoutDiff))
            ELSE t1
      t3 == emit(t2, Payment(dealId, rp, timeoutCollateral,
                             "TimeoutCollateral", "Refunded"))
  IN emit(t3, Payment(dealId, rp, resultsCollateral,
                      "ResultsCollateral", "PaidIn"))

\* an acceptResult that gives the job creator its whole payment collateral
\* back, whatever the job cost
acceptResultRefundingAll(bal, sender, origin, dealId, rp, jc, jobCost, paymentCollateral, resultsCollateral, timeoutCollateral) ==
  LET t1 == onlyOwner(Begin(bal), sender)
      t2 == payOut(t1, jc, paymentCollateral + timeoutCollateral)
      t3 == emit(t2, Payment(dealId, jc, paymentCollateral,
                             "PaymentCollateral", "Refunded"))
      t4 == emit(t3, Payment(dealId, jc, timeoutCollateral,
                             "TimeoutCollateral", "Refunded"))
      t5 == payOut(t4, rp, resultsCollateral + jobCost)
      t6 == emit(t5, Payment(dealId, rp, resultsCollateral,
                             "ResultsCollateral", "Refunded"))
  IN emit(t6, Payment(dealId, rp, jobCost, "JobPayment", "PaidOut"))

acceptResult(bal, sender, origin, dealId, rp, jc, jobCost, paymentCollateral, resultsCollateral, timeoutCollateral) ==
  LET diff == paymentCollateral - jobCost
      paymentCollateralRefund == IF diff < 0 THEN 0 ELSE diff
      t1 == onlyOwner(Begin(bal), sender)
      t2 == payOut(t1, jc, Value(ToUint256(paymentCollateralRefund))
                             + timeoutCollateral)
      t3 == IF paymentCollateralRefund > 0
              THEN emit(t2, Payment(dealId, jc,
                                    Value(ToUint256(paymentCollateralRefund)),
                                    "PaymentCollateral", "Refunded"))
              ELSE t2
      t4 == emit(t3, Payment(dealId, jc, timeoutCollateral,
                             "TimeoutCollateral", "Refunded"))
      t5 == payOut(t4, rp, resultsCollateral + jobCost)
      t6 == emit(t5, Payment(dealId, rp, resultsCollateral,
                             "ResultsCollateral", "Refunded"))
  IN emit(t6, Payment(dealId, rp, jobCost, "JobPayment", "PaidOut"))

challengeResult(bal, sender, origin, dealId, rp, jc, timeoutCollateral, mediationFee) ==
  LET timeoutMediationDiff == timeoutCollateral - mediationFee
      t1 == onlyOwner(Begin(bal), sender)
      t2 == IF timeoutMediationDiff > 0
              THEN payIn(t1, origin, Value(ToUint256(timeoutMediationDiff)))
            ELSE IF timeoutMediationDiff < 0
              THEN payOutUint256(t1, rp, ToUint256(timeoutMediationDiff))
            ELSE t1
      t3 == emit(t2, Payment(dealId, jc, timeoutCollateral,
                             "TimeoutCollateral", "Refunded"))
  IN emit(t3, Payment(dealId, jc, mediationFee, "MediationFee", "PaidIn"))

mediationAcceptResult(bal, sender, origin, dealId, rp, jc, med, jobCost, paymentCollateral, resultsCollateral, mediationFee) ==
  LET paymentCollateralRefund == paymentCollateral - jobCost
      t1 == onlyOwner(Begin(bal), sender)
      t2 == IF paymentCollateralRefund > 0
              THEN emit(payOut(t1, jc, Value(ToUint256(paymentCollateralRefund))),
                        Payment(dealId, jc,
                                Value(ToUint256(paymentCollateralRefund)),
                                "PaymentCollateral", "Refunded"))
              ELSE t1
      t3 == payOut(t2, rp, resultsCollateral + jobCost)
      t4 == emit(t3, Payment(dealId, rp, resultsCollateral,
                             "ResultsCollateral", "Refunded"))
      t5 == emit(t4, Payment(dealId, rp, jobCost, "JobPayment", "PaidOut"))
      t6 == payOut(t5, med, mediationFee)
  IN emit(t6, Payment(dealId, med, mediationFee, "MediationFee", "PaidOut"))

\* a mediationRejectResult that gives the resource provider its results
\* collateral back
mediationRejectResultRefundingProvider(bal, sender, origin, dealId, rp, jc, med, paymentCollateral, resultsCollateral, mediationFee) ==
  LET t1 == onlyOwner(Begin(bal), sender)
      t2 == payOut(t1, jc, paymentCollateral)
      t3 == emit(t2, Payment(dealId, jc, paymentCollateral,
                             "PaymentCollateral", "Refunded"))
      t4 == payOut(t3, med, mediationFee)
      t5 == emit(t4, Payment(dealId, med, mediationFee,
                             "MediationFee", "PaidOut"))
      t6 == payOut(t5, rp, resultsCollateral)
  IN emit(t6, Payment(dealId, rp, resultsCollateral,
                      "ResultsCollateral", "Refunded"))

mediationRejectResult(bal, sender, origin, dealId, rp, jc, med, paymentCollateral, resultsCollateral, mediationFee) ==
  LET t1 == onlyOwner(Begin(bal), sender)
      t2 == payOut(t1, jc, paymentCollateral)
      t3 == emit(t2, Payment(dealId, jc, paymentCollateral,
                             "PaymentCollateral", "Refunded"))
      t4 == payOut(t3, med, mediationFee)
      t5 == emit(t4, Payment(dealId, med, mediationFee,
                             "MediationFee", "PaidOut"))
  IN emit(t5, Payment(dealId, rp, resultsCollateral,
                      "ResultsCollateral", "Slashed"))

timeoutSubmitResults(bal, sender, origin, dealId, rp, jc, paymentCollateral, timeoutCollateral) ==
  LET t1 == onlyOwner(Begin(bal), sender)
      t2 == payOut(t1, jc, paymentCollateral)
      t3 == emit(t2, Payment(dealId, jc, paymentCollateral,
                             "PaymentCollateral", "Refunded"))
  IN emit(t3, Payment(dealId, rp, timeoutCollateral,
                      "TimeoutCollateral", "Slashed"))

timeoutJudgeResults(bal, sender, origin, dealId, rp, jc, resultsCollateral, timeoutCollateral) ==
  LET t1 == onlyOwner(Begin(bal), sender)
      t2 == payOut(t1, rp, resultsCollateral)
      t3 == emit(t2, Payment(dealId, rp, resultsCollateral,
                             "PaymentCollateral", "Refunded"))
  IN emit(t3, Payment(dealId, jc, timeoutCollateral,
                      "TimeoutCollateral", "Slashed"))

timeoutMediateResult(bal, sender, origin, dealId, rp, jc, paymentCollateral, resultsCollateral) ==
  LET t1 == onlyOwner(Begin(bal), sender)
      t2 == payOut(t1, rp, resultsCollateral)
      t3 == payOut(t2, jc, paymentCollateral)
      t4 == emit(t3, Payment(dealId, rp, resultsCollateral,
                             "ResultsCollateral", "Refunded"))
  IN emit(t4, Payment(dealId, jc, paymentCollateral,
                      "PaymentCollateral", "Refunded"))

(***************************************************************************)
(* The settlement protocol of one deal, as the controller drives it        *)
(* (spec 4.3, 4.4).  stage is a history variable: it records whether the   *)
(* successful calls made for a dealId so far form a legal sequence, and    *)
(* where that sequence stands.  It constrains no call.                     *)
(***************************************************************************)
TerminalFns ==
  {"acceptResult", "mediationAcceptResult", "mediationRejectResult",
   "timeoutSubmitResults", "timeoutJudgeResults", "timeoutMediateResult"}

\* the party whose transaction a settlement call is
ActingParties(fn) ==
  CASE fn \in {"agreeResourceProvider", "addResult", "timeoutJudgeResults"}
         -> {resource_provider}
    [] fn \in {"agreeJobCreator", "acceptResult", "challengeResult",
               "timeoutSubmitResults"}
         -> {job_creator}
    [] fn \in {"mediationAcceptResult", "mediationRejectResult"}
         -> {mediator}
    [] OTHER -> {resource_provider, job_creator}

StageAfter(s, fn) ==
  CASE s = "new" /\ fn = "agreeResourceProvider" -> "rpAgreed"
    [] s = "new" /\ fn = "agreeJobCreator" -> "jcAgreed"
    [] s = "rpAgreed" /\ fn = "agreeJobCreator" -> "agreed"
    [] s = "jcAgreed" /\ fn = "agreeResourceProvider" -> "agreed"
    [] s = "agreed" /\ fn = "addResult" -> "submitted"
    [] s = "agreed" /\ fn = "timeoutSubmitResults" -> fn
    [] s = "submitted" /\ fn \in {"acceptResult", "timeoutJudgeResults"} -> fn
    [] s = "submitted" /\ fn = "challengeResult" -> "challenged"
    [] s = "challenged" /\ fn \in {"mediationAcceptResult",
                                   "mediationRejectResult",
                                   "timeoutMediateResult"} -> fn
    [] OTHER -> "off"

Range(s) == {s[i] : i \in DOMAIN s}

BagOfSeq(s) == [e \in Range(s) |-> Cardinality({i \in DOMAIN s : s[i] = e})]

(***************************************************************************)
(* A call is one transaction: if it reverted nothing changes; otherwise    *)
(* the balances and the emitted events are kept.                           *)
(***************************************************************************)
\* a call as the history records it: the amounts are those of the deal
Call(fn, dealId, sender, origin, rp) ==
  [fn |-> fn, dealId |-> dealId, sender |-> sender, origin |-> origin,
   rp |-> rp]

\* a call the controller makes for the acting party at the deal's stage
Legal(dealId, fn, sender, origin, rp) ==
  /\ sender = owner
  /\ origin \in ActingParties(fn)
  /\ rp = resource_provider
  /\ StageAfter(stage[dealId], fn) # "off"

Settle(tx, dealId, fn, sender, origin, rp) ==
  /\ tx.ok
  /\ Legal(dealId, fn, sender, origin, rp) \/ stray < MaxStray
  /\ balanceOf' = tx.bal
  /\ events' = events (+) BagOfSeq(tx.ev)
  /\ escrowIn' = [escrowIn EXCEPT ![dealId] = @ + tx.paidIn]
  /\ escrowOut' = [escrowOut EXCEPT ![dealId] = @ + tx.paidOut]
  /\ stage' = [stage EXCEPT ![dealId] =
                 IF Legal(dealId, fn, sender, origin, rp)
                   THEN StageAfter(@, fn) ELSE "off"]
  /\ stray' = IF Legal(dealId, fn, sender, origin, rp)
                THEN stray ELSE stray + 1
  /\ invoked' = invoked \cup {Call(fn, dealId, sender, origin, rp)}
  /\ UNCHANGED <<tokenAddress, escrowAddress, ledgers, terms, storeVars>>

\* the arguments of setTokenAddress and setEscrowAddress
TokenAddressInputs == Tokens \cup {address0}
EscrowAddressInputs == {escrow, owner, address0}

\* the balances tokenContract.balanceOf gives once the contract talks to the
\* token at newTokenAddress, and those of the tokens it does not talk to
Configure(newTokenAddress) ==
  /\ tokenAddress' = newTokenAddress
  /\ balanceOf' = IF newTokenAddress = tokenAddress THEN balanceOf
                  ELSE ledgers[newTokenAddress]
  /\ ledgers' = [t \in Tokens \ {newTokenAddress} |->
                   IF t = tokenAddress THEN balanceOf ELSE ledgers[t]]

\* the configuration calls are made outside the settlement protocol
TxSetTokenAddress ==
  \E sender \in Senders, newTokenAddress \in TokenAddressInputs :
    /\ setTokenAddress(balanceOf, sender, newTokenAddress).ok
    /\ stray < MaxStray
    /\ Configure(newTokenAddress)
    /\ stray' = stray + 1
    /\ UNCHANGED <<escrowAddress, events, terms, stage, escrowIn, escrowOut,
                   invoked, storeVars>>

TxSetEscrowAddress ==
  \E sender \in Senders, newEscrowAddress \in EscrowAddressInputs :
    /\ setEscrowAddress(balanceOf, sender, newEscrowAddress).ok
    /\ stray < MaxStray
    /\ escrowAddress' = newEscrowAddress
    /\ stray' = stray + 1
    /\ UNCHANGED <<tokenAddress, balanceOf, ledgers, events, terms, stage,
                   escrowIn, escrowOut, invoked, storeVars>>

TxAgreeResourceProviderWith(d, sender, origin, rp) ==
    Settle(agreeResourceProvider(balanceOf, sender, origin, d, rp,
                                 terms[d].timeoutCollateral),
           d, "agreeResourceProvider", sender, origin, rp)

TxAgreeJobCreatorWith(d, sender, origin) ==
    Settle(agreeJobCreator(balanceOf, sender, origin, d, job_creator,
                           terms[d].paymentCollateral,
                           terms[d].timeoutCollateral),
           d, "agreeJobCreator", sender, origin, resource_provider)

TxAddResultWith(d, sender, origin) ==
    Settle(addResult(balanceOf, sender, origin, d, resource_provider,
                     terms[d].resultsCollateral, terms[d].timeoutCollateral),
           d, "addResult", sender, origin, resource_provider)

TxAcceptResultWith(d, sender, origin) ==
    Settle(acceptResult(balanceOf, sender, origin, d, resource_provider,
                        job_creator, terms[d].jobCost,
                        terms[d].paymentCollateral,
                        terms[d].resultsCollateral,
                        terms[d].timeoutCollateral),
           d, "acceptResult", sender, origin, resource_provider)

TxChallengeResultWith(d, sender, origin) ==
    Settle(challengeResult(balanceOf, sender, origin, d, resource_provider,
                           job_creator, terms[d].timeoutCollateral,
                           terms[d].mediationFee),
           d, "challengeResult", sender, origin, resource_provider)

TxMediationAcceptResultWith(d, sender, origin) ==
    Settle(mediationAcceptResult(balanceOf, sender, origin, d,
                                 resource_provider, job_creator, mediator,
                                 terms[d].jobCost, terms[d].paymentCollateral,
                                 terms[d].resultsCollateral,
                                 terms[d].mediationFee),
           d, "mediationAcceptResult", sender, origin, resource_provider)

TxMediationRejectResultWith(d, sender, origin) ==
    Settle(mediationRejectResult(balanceOf, sender, origin, d,
                                 resource_provider, job_creator, mediator,
                                 terms[d].paymentCollateral,
                                 terms[d].resultsCollateral,
                                 terms[d].mediationFee),
           d, "mediationRejectResult", sender, origin, resource_provider)

TxTimeoutSubmitResultsWith(d, sender, origin) ==
    Settle(timeoutSubmitResults(balanceOf, sender, origin, d,
                                resource_provider, job_creator,
                                terms[d].paymentCollateral,
                                terms[d].timeoutCollateral),
           d, "timeoutSubmitResults", sender, origin, resource_provider)

TxTimeoutJudgeResultsWith(d, sender, origin) ==
    Settle(timeoutJudgeResults(balanceOf, sender, origin, d,
                               resource_provider, job_creator,
                               terms[d].resultsCollateral,
                               terms[d].timeoutCollateral),
           d, "timeoutJudgeResults", sender, origin, resource_provider)

TxTimeoutMediateResultWith(d, sender, origin) ==
    Settle(timeoutMediateResult(balanceOf, sender, origin, d,
                                resource_provider, job_creator,
                                terms[d].paymentCollateral,
                                terms[d].resultsCollateral),
           d, "timeoutMediateResult", sender, origin, resource_provider)

TxAgreeResourceProvider ==
  \E d \in DealIds, sender \in Senders, origin \in Origins, rp \in Parties :
    TxAgreeResourceProviderWith(d, sender, origin, rp)
TxAgreeJobCreator ==
  \E d \in DealIds, sender \in Senders, origin \in Origins :
    TxAgreeJobCreatorWith(d, sender, origin)
TxAddResult ==
  \E d \in DealIds, sender \in Senders, origin \in Origins :
    TxAddResultWith(d, sender, origin)
TxAcceptResult ==
  \E d \in DealIds, sender \in Senders, origin \in Origins :
    TxAcceptResultWith(d, sender, origin)
TxChallengeResult ==
  \E d \in DealIds, sender \in Senders, origin \in Origins :
    TxChallengeResultWith(d, sender, origin)
TxMediationAcceptResult ==
  \E d \in DealIds, sender \in Senders, origin \in Origins :
    TxMediationAcceptResultWith(d, sender, origin)
TxMediationRejectResult ==
  \E d \in DealIds, sender \in Senders, origin \in Origins :
    TxMediationRejectResultWith(d, sender, origin)
TxTimeoutSubmitResults ==
  \E d \in DealIds, sender \in Senders, origin \in Origins :
    TxTimeoutSubmitResultsWith(d, sender, origin)
TxTimeoutJudgeResults ==
  \E d \in DealIds, sender \in Senders, origin \in Origins :
    TxTimeoutJudgeResultsWith(d, sender, origin)
TxTimeoutMediateResult ==
  \E d \in DealIds, sender \in Senders, origin \in Origins :
    TxTimeoutMediateResultWith(d, sender, origin)

\* the amounts of a deal: every combination of amounts in 1..MaxAmount
TermsSet ==
  [paymentCollateral : Amounts, resultsCollateral : Amounts,
   timeoutCollateral : Amounts, mediationFee : Amounts, jobCost : Amounts]

\* tokens the owner of the contract may hold: none, or enough for any payout
OwnerFunds == {0, 2 * MaxAmount}

\* initialize("token", escrow), on tokens that hold the same balances
PayInit ==
  /\ tokenAddress = "token"
  /\ escrowAddress = escrow
  /\ \E f \in OwnerFunds :
       /\ balanceOf = [a \in Accounts |->
                         IF a \in Parties THEN PartyFunds
                         ELSE IF a = owner THEN f ELSE 0]
       /\ ledgers = [t \in Tokens \ {"token"} |-> balanceOf]
  /\ events = EmptyBag
  /\ \E t \in TermsSet : terms = [d \in DealIds |-> t]
  /\ stage = [d \in DealIds |-> "new"]
  /\ escrowIn = [d \in DealIds |-> 0]
  /\ escrowOut = [d \in DealIds |-> 0]
  /\ stray = 0
  /\ invoked = {}

PayNext ==
  \/ TxAgreeResourceProvider
  \/ TxAgreeJobCreator
  \/ TxAddResult
  \/ TxAcceptResult
  \/ TxChallengeResult
  \/ TxMediationAcceptResult
  \/ TxMediationRejectResult
  \/ TxTimeoutSubmitResults
  \/ TxTimeoutJudgeResults
  \/ TxTimeoutMediateResult
  \/ TxSetTokenAddress
  \/ TxSetEscrowAddress

(***************************************************************************)
(* PART 2 -- SolverStoreMemory                                             *)
(***************************************************************************)

\* at most this many lines are appended to the log files in all
MaxWrites == 3
\* the records callers hold at a time
MaxHeld == 1

kinds == {"job_offers", "resource_offers", "deals", "decisions", "results"}

getMatchID(resourceOffer, jobOffer) == resourceOffer \o "-" \o jobOffer

\* AgreementState ordinals (spec 4.3)
DealNegotiating == 0
DealAgreed == 1
ResultsSubmitted == 2
ResultsAccepted == 3
MediationAccepted == 5
MediationRejected == 6

(***************************************************************************)
(* The inputs callers hand to the store.                                   *)
(***************************************************************************)
JobOfferIDs == {"j2", "x-j2"}
ResourceOfferIDs == {"r1", "r1-x"}
DealIDs == {"d1", "d2"}

NoTransactions ==
  [ResourceProvider |->
     [Agree |-> "", AddResult |-> "", TimeoutAgree |-> "",
      TimeoutJudgeResult |-> "", TimeoutMediateResult |-> ""],
   JobCreator |->
     [Agree |-> "", AcceptResult |-> "", CheckResult |-> "",
      TimeoutAgree |-> "", TimeoutSubmitResult |-> "",
      TimeoutMediateResult |-> ""],
   Mediator |->
     [MediationAcceptResult |-> "", MediationRejectResult |-> ""]]

\* new offers: not matched, in the first state
JobOfferInputs ==
  {[ID |-> "j2", DealID |-> "", JobCreator |-> "jc1",
    State |-> DealNegotiating],
   [ID |-> "x-j2", DealID |-> "", JobCreator |-> "jc2",
    State |-> DealNegotiating]}

ResourceOfferInputs ==
  {[ID |-> "r1", DealID |-> "", ResourceProvider |-> "rp1",
    State |-> DealNegotiating],
   [ID |-> "r1-x", DealID |-> "", ResourceProvider |-> "rp2",
    State |-> DealNegotiating]}

DealInputs ==
  {[ID |-> d[1], JobCreator |-> "jc1", ResourceProvider |-> d[2],
    Mediator |-> "", State |-> d[3], Transactions |-> NoTransactions] :
     d \in {<<"d1", "rp1", DealNegotiating>>, <<"d1", "rp1", ResultsAccepted>>,
            <<"d2", "rp1", ResultsAccepted>>, <<"d2", "rp2", ResultsAccepted>>}}

\* a DataID of 64 KiB
LongDataID == "cid of 64 KiB"

ResultInputs ==
  {[DealID |-> id, DataID |-> cid] :
     id \in {"d1"}, cid \in {"cid1", LongDataID}}

\* the store puts no limit on the size of a record: the JSON text of these
\* is longer than bufio.MaxScanTokenSize
LongRecords == {result \in ResultInputs : result.DataID = LongDataID}

\* what a match decision says: matched into a deal, or rejected
DecisionInputs == {<<"d1", TRUE>>, <<"", FALSE>>}

\* the (dealID, state) an offer is updated to
OfferUpdateInputs == {<<"d1", DealAgreed>>, <<"d2", MediationRejected>>}

\* the (resource offer, job offer) pairs decisions are made for; the first
\* two have the same match id
MatchPairs == {<<"r1", "x-j2">>, <<"r1-x", "j2">>, <<"r1", "j2">>}

DealStateInputs == {DealNegotiating, ResultsAccepted}

MediatorInputs == {"med1"}

TransactionsResourceProviderInputs ==
  {[NoTransactions.ResourceProvider EXCEPT !.Agree = "0xa"],
   [NoTransactions.ResourceProvider EXCEPT !.AddResult = "0xb"]}

TransactionsJobCreatorInputs ==
  {[NoTransactions.JobCreator EXCEPT !.AcceptResult = "0xd"]}

TransactionsMediatorInputs ==
  {[NoTransactions.Mediator EXCEPT !.MediationAcceptResult = "0xe"]}

(***************************************************************************)
(* Maps and log files.                                                     *)
(***************************************************************************)
EmptyMap == [k \in {} |-> 0]

\* m[k] = v
Put(m, k, v) == [x \in DOMAIN m \cup {k} |-> IF x = k THEN v ELSE m[x]]

\* delete(m, k)
Delete(m, k) == [x \in DOMAIN m \ {k} |-> m[x]]

\* one line of a JSONL file: the JSON text of a record; a torn line does not
\* parse, a long line is longer than bufio.MaxScanTokenSize
Marshal(record) ==
  [json |-> record, torn |-> FALSE, long |-> record \in LongRecords]

\* json.Unmarshal of a line succeeds
Parses(line) == ~line.torn

Unmarshal(line) == line.json

\* jsonl.Writer.Write: appends the record as one line to the file of kind
Write(files, kind, record) ==
  [files EXCEPT ![kind] = Append(@, Marshal(record))]

\* the primary key of a record of a kind (the getID closures of
\* NewSolverStoreMemory)
getID(kind, record) ==
  CASE kind = "results" -> record.DealID
    [] kind = "decisions" -> getMatchID(record.ResourceOffer, record.JobOffer)
    [] OTHER -> record.ID

getJSONLFilename(kind) == "/var/tmp/lilypad_" \o kind \o ".jsonl"

\* the error of os.OpenFile on a file that is there and may not be opened
ErrPermission(kind) == "open " \o getJSONLFilename(kind) \o ": permission denied"

\* bufio.ErrTooLong, the error of a scanner that meets a line longer than
\* bufio.MaxScanTokenSize
ErrTooLong == "bufio.Scanner: token too long"

\* what loadJSONLFile and loadJSONLMap return
Loaded(structs, err) == [structs |-> structs, err |-> err]

RECURSIVE ScanUntilError(_, _)
\* the scanner loop of a loadJSONLFile that stops reading at the first line
\* that does not parse
ScanUntilError(file, structsArray) ==
  IF file = <<>> THEN Loaded(structsArray, "")
  ELSE IF Head(file).long THEN Loaded(<<>>, ErrTooLong)
  ELSE IF Parses(Head(file))
    THEN ScanUntilError(Tail(file), Append(structsArray, Unmarshal(Head(file))))
    ELSE Loaded(structsArray, "")

loadJSONLFileUntilError(file, kind, denied) ==
  IF denied THEN Loaded(<<>>, ErrPermission(kind))
  ELSE ScanUntilError(file, <<>>)

RECURSIVE Scan(_, _)
\* the scanner loop of loadJSONLFile over the lines not read yet: a line
\* that parses is appended to structsArray, a line that does not is
\* skipped, a long line ends the loop and the records read are given up
Scan(file, structsArray) ==
  IF file = <<>> THEN Loaded(structsArray, "")
  ELSE IF Head(file).long THEN Loaded(<<>>, ErrTooLong)
  ELSE IF Parses(Head(file))
    THEN Scan(Tail(file), Append(structsArray, Unmarshal(Head(file))))
    ELSE Scan(Tail(file), structsArray)

\* file: the lines of the file of kind, none when the file is not there or
\* is empty; denied: the file is there and os.OpenFile refuses it
loadJSONLFile(file, kind, denied) ==
  IF denied THEN Loaded(<<>>, ErrPermission(kind))
  ELSE Scan(file, <<>>)

RECURSIVE FoldRecords(_, _, _)
\* the loop of loadJSONLMap: structsMap[getID(record)] = record, in order
FoldRecords(structsMap, structsArray, kind) ==
  IF structsArray = <<>> THEN structsMap
  ELSE FoldRecords(Put(structsMap, getID(kind, Head(structsArray)),
                       Head(structsArray)),
                   Tail(structsArray), kind)

RECURSIVE FoldRecordsKeepFirst(_, _, _)
\* the loop of a loadJSONLMap that does not overwrite a key it has loaded
FoldRecordsKeepFirst(structsMap, structsArray, kind) ==
  IF structsArray = <<>> THEN structsMap
  ELSE FoldRecordsKeepFirst(
         IF getID(kind, Head(structsArray)) \in DOMAIN structsMap
           THEN structsMap
           ELSE Put(structsMap, getID(kind, Head(structsArray)),
                    Head(structsArray)),
         Tail(structsArray), kind)

loadJSONLMapKeepFirst(file, kind, denied) ==
  LET loaded == loadJSONLFile(file, kind, denied)
  IN IF loaded.err # "" THEN Loaded(EmptyMap, loaded.err)
     ELSE Loaded(FoldRecordsKeepFirst(EmptyMap, loaded.structs, kind), "")

loadJSONLMap(file, kind, denied) ==
  LET loaded == loadJSONLFile(file, kind, denied)
  IN IF loaded.err # "" THEN Loaded(EmptyMap, loaded.err)
     ELSE Loaded(FoldRecords(EmptyMap, loaded.structs, kind), "")

TotalLines ==
  Len(logFiles["job_offers"]) + Len(logFiles["resource_offers"])
    + Len(logFiles["deals"]) + Len(logFiles["decisions"])
    + Len(logFiles["results"])

\* the model stops appending at MaxWrites lines
CanWrite == TotalLines < MaxWrites

Returned(op, err) == ret' = [op |-> op, err |-> err]

\* the in-memory table of a kind
Table(kind) ==
  CASE kind = "job_offers" -> jobOfferMap
    [] kind = "resource_offers" -> resourceOfferMap
    [] kind = "deals" -> dealMap
    [] kind = "results" -> resultMap
    [] kind = "decisions" -> matchDecisionMap

(***************************************************************************)
(* The tables hold pointers, and the lookups, the Add* and the Update*     *)
(* return the pointer the table holds.  A caller that keeps one holds the  *)
(* record together with the table (shared) until an Add* puts a new record *)
(* under the id or a Remove* takes the id out; from then on the caller     *)
(* holds a record of its own.                                              *)
(***************************************************************************)
AddOp(kind) ==
  CASE kind = "job_offers" -> "AddJobOffer"
    [] kind = "resource_offers" -> "AddResourceOffer"
    [] kind = "deals" -> "AddDeal"
    [] kind = "results" -> "AddResult"
    [] kind = "decisions" -> "AddMatchDecision"

\* the call put a new record under the id of h: s.xMap[x.ID] = &x
Replaced(h) ==
  /\ ret'.op = AddOp(h.kind)
  /\ Len(logFiles'[h.kind]) = Len(logFiles[h.kind]) + 1
  /\ getID(h.kind, logFiles'[h.kind][Len(logFiles'[h.kind])].json) = h.id

Follow(h) ==
  IF ~h.shared THEN h
  ELSE IF Replaced(h) \/ h.id \notin DOMAIN Table(h.kind)'
         THEN [h EXCEPT !.shared = FALSE]
         ELSE [h EXCEPT !.record = Table(h.kind)'[h.id]]

\* what the callers hold after a call; no caller outlives a restart
Aliases ==
  held' = IF ret'.op = "NewSolverStoreMemory" THEN {}
          ELSE {Follow(h) : h \in held}

(***************************************************************************)
(* Operations.                                                             *)
(***************************************************************************)
\* the kinds in the order NewSolverStoreMemory opens their files for
\* appending
kindsInOrder ==
  <<"job_offers", "resource_offers", "deals", "decisions", "results">>

\* os.OpenFile refuses no file
Granted == [read |-> {}, append |-> {}]

\* the files os.OpenFile refuses: read those it refuses to open for reading,
\* append those it refuses to open for appending
AccessInputs ==
  {Granted,
   [read |-> {"job_offers", "results"}, append |-> {}],
   [read |-> {}, append |-> {"deals"}]}

\* the first error in a sequence of errors, "" when there is none
FirstError(errs) ==
  IF \A i \in DOMAIN errs : errs[i] = "" THEN ""
  ELSE errs[CHOOSE i \in DOMAIN errs :
              errs[i] # "" /\ \A j \in 1..(i - 1) : errs[j] = ""]

\* what NewSolverStoreMemory returns on the log files: the tables of the
\* store and no error, or no store and the first error met
Start(files, access) ==
  LET load(kind) == loadJSONLMap(files[kind], kind, kind \in access.read)
      jobOffers == load("job_offers")
      resourceOffers == load("resource_offers")
      deals == load("deals")
      results == load("results")
      decisions == load("decisions")
      err == FirstError(
               <<jobOffers.err, resourceOffers.err, deals.err, results.err,
                 decisions.err>>
               \o [i \in DOMAIN kindsInOrder |->
                     IF kindsInOrder[i] \in access.append
                       THEN ErrPermission(kindsInOrder[i]) ELSE ""])
      table(loaded) == IF err = "" THEN loaded.structs ELSE EmptyMap
  IN [jobOfferMap |-> table(jobOffers),
      resourceOfferMap |-> table(resourceOffers),
      dealMap |-> table(deals),
      resultMap |-> table(results),
      matchDecisionMap |-> table(decisions),
      err |-> err]

\* there is a store: the last NewSolverStoreMemory returned one
Started == ~(ret.op = "NewSolverStoreMemory" /\ ret.err # "")

NewSolverStoreMemoryWith(access) ==
  \E s \in {Start(logFiles, access)} :
     /\ jobOfferMap' = s.jobOfferMap
     /\ resourceOfferMap' = s.resourceOfferMap
     /\ dealMap' = s.dealMap
     /\ resultMap' = s.resultMap
     /\ matchDecisionMap' = s.matchDecisionMap
     /\ Returned("NewSolverStoreMemory", s.err)
     /\ UNCHANGED <<logFiles, payVars, lockVars>>
     /\ Aliases

NewSolverStoreMemory ==
  \E access \in AccessInputs : NewSolverStoreMemoryWith(access)

AddJobOffer(jobOffer) ==
  /\ CanWrite
  /\ jobOfferMap' = Put(jobOfferMap, jobOffer.ID, jobOffer)
  /\ logFiles' = Write(logFiles, "job_offers", jobOffer)
  /\ Returned("AddJobOffer", "")
  /\ UNCHANGED <<resourceOfferMap, dealMap, resultMap, matchDecisionMap,
                 payVars, lockVars>>
  /\ Aliases

AddResourceOffer(resourceOffer) ==
  /\ CanWrite
  /\ resourceOfferMap' = Put(resourceOfferMap, resourceOffer.ID, resourceOffer)
  /\ logFiles' = Write(logFiles, "resource_offers", resourceOffer)
  /\ Returned("AddResourceOffer", "")
  /\ UNCHANGED <<jobOfferMap, dealMap, resultMap, matchDecisionMap, payVars, lockVars>>
  /\ Aliases

AddDeal(deal) ==
  /\ CanWrite
  /\ dealMap' = Put(dealMap, deal.ID, deal)
  /\ logFiles' = Write(logFiles, "deals", deal)
  /\ Returned("AddDeal", "")
  /\ UNCHANGED <<jobOfferMap, resourceOfferMap, resultMap, matchDecisionMap,
                 payVars, lockVars>>
  /\ Aliases

AddResult(result) ==
  /\ CanWrite
  /\ resultMap' = Put(resultMap, result.DealID, result)
  /\ logFiles' = Write(logFiles, "results", result)
  /\ Returned("AddResult", "")
  /\ UNCHANGED <<jobOfferMap, resourceOfferMap, dealMap, matchDecisionMap,
                 payVars, lockVars>>
  /\ Aliases

\* an AddMatchDecision that does not look for an existing decision
AddMatchDecisionOverwriting(resourceOffer, jobOffer, deal, result) ==
  LET id == getMatchID(resourceOffer, jobOffer)
      decision == [ResourceOffer |-> resourceOffer, JobOffer |-> jobOffer,
                   Deal |-> deal, Result |-> result]
  IN /\ CanWrite
     /\ matchDecisionMap' = Put(matchDecisionMap, id, decision)
     /\ logFiles' = Write(logFiles, "decisions", decision)
     /\ Returned("AddMatchDecision", "")
     /\ UNCHANGED <<jobOfferMap, resourceOfferMap, dealMap, resultMap,
                    payVars, lockVars>>
     /\ Aliases

AddMatchDecision(resourceOffer, jobOffer, deal, result) ==
  LET id == getMatchID(resourceOffer, jobOffer)
      decision == [ResourceOffer |-> resourceOffer, JobOffer |-> jobOffer,
                   Deal |-> deal, Result |-> result]
  IN IF id \in DOMAIN matchDecisionMap
       THEN /\ Returned("AddMatchDecision", "that match already exists")
            /\ UNCHANGED <<storeMaps, logFiles, payVars, lockVars>>
            /\ Aliases
       ELSE /\ CanWrite
            /\ matchDecisionMap' = Put(matchDecisionMap, id, decision)
            /\ logFiles' = Write(logFiles, "decisions", decision)
            /\ Returned("AddMatchDecision", "")
            /\ UNCHANGED <<jobOfferMap, resourceOfferMap, dealMap, resultMap,
                           payVars, lockVars>>
            /\ Aliases

\* an UpdateJobOfferState that makes the record when there is none
UpdateJobOfferStateOrCreate(id, dealID, state) ==
  LET jobOffer == IF id \in DOMAIN jobOfferMap
                    THEN [jobOfferMap[id] EXCEPT !.DealID = dealID,
                                                 !.State = state]
                    ELSE [ID |-> id, DealID |-> dealID, JobCreator |-> "",
                          State |-> state]
  IN /\ CanWrite
     /\ jobOfferMap' = Put(jobOfferMap, id, jobOffer)
     /\ logFiles' = Write(logFiles, "job_offers", jobOffer)
     /\ Returned("UpdateJobOfferState", "")
     /\ UNCHANGED <<resourceOfferMap, dealMap, resultMap, matchDecisionMap,
                    payVars, lockVars>>
     /\ Aliases

UpdateJobOfferState(id, dealID, state) ==
  IF id \notin DOMAIN jobOfferMap
    THEN /\ Returned("UpdateJobOfferState", "job offer not found: " \o id)
         /\ UNCHANGED <<storeMaps, logFiles, payVars, lockVars>>
         /\ Aliases
    ELSE LET jobOffer == [jobOfferMap[id] EXCEPT !.DealID = dealID,
                                                  !.State = state]
         IN /\ CanWrite
            /\ jobOfferMap' = Put(jobOfferMap, id, jobOffer)
            /\ logFiles' = Write(logFiles, "job_offers", jobOffer)
            /\ Returned("UpdateJobOfferState", "")
            /\ UNCHANGED <<resourceOfferMap, dealMap, resultMap,
                           matchDecisionMap, payVars, lockVars>>
            /\ Aliases

UpdateResourceOfferState(id, dealID, state) ==
  IF id \notin DOMAIN resourceOfferMap
    THEN /\ Returned("UpdateResourceOfferState",
                     "resource offer not found: " \o id)
         /\ UNCHANGED <<storeMaps, logFiles, payVars, lockVars>>
         /\ Aliases
    ELSE LET resourceOffer == [resourceOfferMap[id] EXCEPT !.DealID = dealID,
                                                            !.State = state]
         IN /\ CanWrite
            /\ resourceOfferMap' = Put(resourceOfferMap, id, resourceOffer)
            /\ logFiles' = Write(logFiles, "resource_offers", resourceOffer)
            /\ Returned("UpdateResourceOfferState", "")
            /\ UNCHANGED <<jobOfferMap, dealMap, resultMap, matchDecisionMap,
                           payVars, lockVars>>
            /\ Aliases

\* the shape the deal updates share: look the deal up, change it, store it
\* and append its post-image
UpdateDeal(op, id, deal) ==
  IF id \notin DOMAIN dealMap
    THEN /\ Returned(op, "deal not found: " \o id)
         /\ UNCHANGED <<storeMaps, logFiles, payVars, lockVars>>
         /\ Aliases
    ELSE /\ CanWrite
         /\ dealMap' = Put(dealMap, id, deal)
         /\ logFiles' = Write(logFiles, "deals", deal)
         /\ Returned(op, "")
         /\ UNCHANGED <<jobOfferMap, resourceOfferMap, resultMap,
                        matchDecisionMap, payVars, lockVars>>
         /\ Aliases

\* a merge that takes every field of data, the empty ones too
ReplaceTransactions(txs, data) == data

\* txs.Field = data.Field for every field of data that is not ""
MergeTransactions(txs, data) ==
  [f \in DOMAIN txs |-> IF data[f] # "" THEN data[f] ELSE txs[f]]

UpdateDealState(id, state) ==
  UpdateDeal("UpdateDealState", id,
             IF id \in DOMAIN dealMap
               THEN [dealMap[id] EXCEPT !.State = state] ELSE <<>>)

UpdateDealMediator(id, med) ==
  UpdateDeal("UpdateDealMediator", id,
             IF id \in DOMAIN dealMap
               THEN [dealMap[id] EXCEPT !.Mediator = med] ELSE <<>>)

UpdateDealTransactionsResourceProvider(id, data) ==
  UpdateDeal("UpdateDealTransactionsResourceProvider", id,
             IF id \in DOMAIN dealMap
               THEN [dealMap[id] EXCEPT !.Transactions.ResourceProvider =
                                           MergeTransactions(@, data)]
               ELSE <<>>)

UpdateDealTransactionsJobCreator(id, data) ==
  UpdateDeal("UpdateDealTransactionsJobCreator", id,
             IF id \in DOMAIN dealMap
               THEN [dealMap[id] EXCEPT !.Transactions.JobCreator =
                                           MergeTransactions(@, data)]
               ELSE <<>>)

UpdateDealTransactionsMediator(id, data) ==
  UpdateDeal("UpdateDealTransactionsMediator", id,
             IF id \in DOMAIN dealMap
               THEN [dealMap[id] EXCEPT !.Transactions.Mediator =
                                           MergeTransactions(@, data)]
               ELSE <<>>)

(***************************************************************************)
(* Queries.  A lookup gives the record or nil, here the set of the record  *)
(* or the empty set; a list query gives its records in the order of a map  *)
(* iteration, here as a set.                                               *)
(***************************************************************************)
\* data.IsActiveAgreementState (spec 4.3), of the states the model uses
IsActiveAgreementState(state) == state # MediationRejected

Lookup(m, id) == {m[k] : k \in DOMAIN m \cap {id}}

GetJobOffer(id) == Lookup(jobOfferMap, id)

GetResourceOffer(id) == Lookup(resourceOfferMap, id)

GetMatchDecision(resourceOffer, jobOffer) ==
  Lookup(matchDecisionMap, getMatchID(resourceOffer, jobOffer))

JobOffersMatching(m, query) ==
  {m[k] : k \in
     {k \in DOMAIN m :
        /\ ~(query.JobCreator # "" /\ m[k].JobCreator # query.JobCreator)
        /\ ~(query.NotMatched /\ m[k].DealID # "")}}

GetJobOffers(query) == JobOffersMatching(jobOfferMap, query)

\* a filter that keeps a record when any one of the set fields matches
ResourceOffersMatchingAny(m, query) ==
  {m[k] : k \in
     {k \in DOMAIN m :
        \/ /\ query.ResourceProvider = ""
           /\ ~query.Active
           /\ ~query.NotMatched
        \/ /\ query.ResourceProvider # ""
           /\ m[k].ResourceProvider = query.ResourceProvider
        \/ query.Active /\ IsActiveAgreementState(m[k].State)
        \/ query.NotMatched /\ m[k].DealID = ""}}

ResourceOffersMatching(m, query) ==
  {m[k] : k \in
     {k \in DOMAIN m :
        /\ ~(/\ query.ResourceProvider # ""
             /\ m[k].ResourceProvider # query.ResourceProvider)
        /\ ~(query.Active /\ ~IsActiveAgreementState(m[k].State))
        /\ ~(query.NotMatched /\ m[k].DealID # "")}}

GetResourceOffers(query) == ResourceOffersMatching(resourceOfferMap, query)

\* data.GetAgreementState: the state a name stands for, as a set: empty
\* for a name that is not the name of a state (an error)
GetAgreementState(name) ==
  CASE name = "DealNegotiating" -> {DealNegotiating}
    [] name = "DealAgreed" -> {DealAgreed}
    [] name = "ResultsSubmitted" -> {ResultsSubmitted}
    [] name = "ResultsAccepted" -> {ResultsAccepted}
    [] name = "MediationAccepted" -> {MediationAccepted}
    [] name = "MediationRejected" -> {MediationRejected}
    [] OTHER -> {}

\* GetDeals returns nil and the error when the name of the state is not
\* one
DealsMatching(m, query) ==
  IF query.State # "" /\ GetAgreementState(query.State) = {} THEN {}
  ELSE {m[k] : k \in
          {k \in DOMAIN m :
             /\ ~(query.JobCreator # "" /\ m[k].JobCreator # query.JobCreator)
             /\ ~(/\ query.ResourceProvider # ""
                  /\ m[k].ResourceProvider # query.ResourceProvider)
             /\ ~(query.Mediator # "" /\ m[k].Mediator # query.Mediator)
             /\ ~(/\ query.State # ""
                  /\ m[k].State \notin GetAgreementState(query.State))}}

GetDeals(query) == DealsMatching(dealMap, query)

\* the queries callers make
JobOfferQueries == [JobCreator : {"", "jc1"}, NotMatched : BOOLEAN]

ResourceOfferQueries ==
  [ResourceProvider : {"", "rp1"}, Active : BOOLEAN, NotMatched : BOOLEAN]

DealQueries ==
  [JobCreator : {"", "jc1"}, ResourceProvider : {"", "rp2"},
   Mediator : {"", "med1"}, State : {"", "ResultsAccepted", "Done"}]

\* the lines of a file that are not a record with the ID id
LinesWithout(file, id) == SelectSeq(file, LAMBDA line : line.json.ID # id)

\* a RemoveJobOffer that also takes the lines of the offer out of the log
RemoveJobOfferFromLog(id) ==
  /\ jobOfferMap' = Delete(jobOfferMap, id)
  /\ logFiles' = [logFiles EXCEPT !["job_offers"] = LinesWithout(@, id)]
  /\ Returned("RemoveJobOffer", "")
  /\ UNCHANGED <<resourceOfferMap, dealMap, resultMap, matchDecisionMap,
                 payVars, lockVars>>
  /\ Aliases

RemoveJobOffer(id) ==
  /\ jobOfferMap' = Delete(jobOfferMap, id)
  /\ Returned("RemoveJobOffer", "")
  /\ UNCHANGED <<resourceOfferMap, dealMap, resultMap, matchDecisionMap,
                 logFiles, payVars, lockVars>>
  /\ Aliases

RemoveResourceOffer(id) ==
  /\ resourceOfferMap' = Delete(resourceOfferMap, id)
  /\ Returned("RemoveResourceOffer", "")
  /\ UNCHANGED <<jobOfferMap, dealMap, resultMap, matchDecisionMap,
                 logFiles, payVars, lockVars>>
  /\ Aliases

(***************************************************************************)
(* Specifications.                                                         *)
(***************************************************************************)
\* a line of a log file that json.Unmarshal rejects: the damaged text of a
\* record
CorruptLine(record) == [json |-> record, torn |-> TRUE, long |-> FALSE]

NoLogFiles == [k \in kinds |-> <<>>]

\* the log files a run may find in /var/tmp when it starts: none, or files
\* an earlier run left, some with a damaged line
InitialLogFiles ==
  {NoLogFiles,
   [NoLogFiles EXCEPT
      !["job_offers"] =
        <<Marshal([ID |-> "j2", DealID |-> "d1", JobCreator |-> "jc1",
                   State |-> DealAgreed]),
          CorruptLine([ID |-> "j2", DealID |-> "d2", JobCreator |-> "jc1",
                       State |-> DealAgreed])>>]}

\* the callers of the store
Callers == {"c1", "c2"}

Idle ==
  [op |-> "", arg |-> [ID |-> ""], at |-> "idle", err |-> "", seen |-> {},
   before |-> <<>>, werr |-> ""]

\* the records of the lines of a file
RecordsOf(file) == [i \in 1..Len(file) |-> file[i].json]

\* no caller is inside a call
LockIdle ==
  /\ mutex = [w |-> FALSE, r |-> 0]
  /\ pc = [t \in Callers |-> Idle]
  /\ applied = [k \in kinds |-> RecordsOf(logFiles[k])]

\* what NewSolverStoreMemory gives on the log files it finds: a store, or
\* an error and no store
StoreInit ==
  /\ logFiles \in InitialLogFiles
  /\ \E access \in AccessInputs :
       LET s == Start(logFiles, access)
       IN /\ jobOfferMap = s.jobOfferMap
          /\ resourceOfferMap = s.resourceOfferMap
          /\ dealMap = s.dealMap
          /\ resultMap = s.resultMap
          /\ matchDecisionMap = s.matchDecisionMap
          /\ ret = [op |-> "NewSolverStoreMemory", err |-> s.err]
  /\ held = {}
  /\ LockIdle

\* the store left alone
StoreIdle ==
  /\ logFiles = NoLogFiles
  /\ jobOfferMap = EmptyMap
  /\ resourceOfferMap = EmptyMap
  /\ dealMap = EmptyMap
  /\ resultMap = EmptyMap
  /\ matchDecisionMap = EmptyMap
  /\ ret = [op |-> "NewSolverStoreMemory", err |-> ""]
  /\ held = {}
  /\ LockIdle

\* the payments contract left alone
PayIdle ==
  /\ tokenAddress = "token"
  /\ escrowAddress = escrow
  /\ balanceOf = [a \in Accounts |-> 0]
  /\ ledgers = [t \in Tokens \ {"token"} |-> balanceOf]
  /\ events = EmptyBag
  /\ terms = [d \in DealIds |-> CHOOSE t \in TermsSet : TRUE]
  /\ stage = [d \in DealIds |-> "new"]
  /\ escrowIn = [d \in DealIds |-> 0]
  /\ escrowOut = [d \in DealIds |-> 0]
  /\ stray = 0
  /\ invoked = {}

Init == StoreInit /\ PayIdle

Next ==
  \/ NewSolverStoreMemory
  \/ Started /\ \E jobOffer \in JobOfferInputs : AddJobOffer(jobOffer)
  \/ Started /\ \E resourceOffer \in ResourceOfferInputs : AddResourceOffer(resourceOffer)
  \/ Started /\ \E deal \in DealInputs : AddDeal(deal)
  \/ Started /\ \E result \in ResultInputs : AddResult(result)
  \/ Started /\ \E p \in MatchPairs, d \in DecisionInputs :
       AddMatchDecision(p[1], p[2], d[1], d[2])
  \/ Started /\ \E id \in JobOfferIDs, u \in OfferUpdateInputs :
       UpdateJobOfferState(id, u[1], u[2])
  \/ Started /\ \E id \in ResourceOfferIDs, u \in OfferUpdateInputs :
       UpdateResourceOfferState(id, u[1], u[2])
  \/ Started /\ \E id \in DealIDs, state \in DealStateInputs : UpdateDealState(id, state)
  \/ Started /\ \E id \in DealIDs, med \in MediatorInputs : UpdateDealMediator(id, med)
  \/ Started /\ \E id \in DealIDs, data \in TransactionsResourceProviderInputs :
       UpdateDealTransactionsResourceProvider(id, data)
  \/ Started /\ \E id \in DealIDs, data \in TransactionsJobCreatorInputs :
       UpdateDealTransactionsJobCreator(id, data)
  \/ Started /\ \E id \in DealIDs, data \in TransactionsMediatorInputs :
       UpdateDealTransactionsMediator(id, data)
  \/ Started /\ \E id \in JobOfferIDs : RemoveJobOffer(id)
  \/ Started /\ \E id \in ResourceOfferIDs : RemoveResourceOffer(id)

Spec == Init /\ [][Next]_vars

\* the contract as deployed, next to a store that is left alone
PayStart == PayInit /\ StoreIdle

PaySpec == PayStart /\ [][PayNext]_vars

(***************************************************************************)
(* The store with callers that keep the records it returns.                *)
(***************************************************************************)
\* the kinds of record the callers keep
HeldKinds == {"job_offers", "deals"}

\* GetJobOffer, GetDeal (and the return of an Add* or Update*): the caller
\* gets the pointer the table holds
CallerGets(kind, id) ==
  /\ Cardinality(held) < MaxHeld
  /\ id \in DOMAIN Table(kind)
  /\ held' = held \cup {[kind |-> kind, id |-> id,
                         record |-> Table(kind)[id], shared |-> TRUE]}
  /\ UNCHANGED <<storeMaps, logFiles, ret, payVars, lockVars>>

\* a caller assigns the State of a record it holds, while no Update* of the
\* record is between its assignments and its Write
CallerWrites(h, state) ==
  LET record == [h.record EXCEPT !.State = state]
  IN /\ h \in held
     /\ record # h.record
     /\ held' = (held \ {h}) \cup {[h EXCEPT !.record = record]}
     /\ jobOfferMap' = IF h.shared /\ h.kind = "job_offers"
                         THEN Put(jobOfferMap, h.id, record) ELSE jobOfferMap
     /\ dealMap' = IF h.shared /\ h.kind = "deals"
                     THEN Put(dealMap, h.id, record) ELSE dealMap
     /\ UNCHANGED <<resourceOfferMap, resultMap, matchDecisionMap, logFiles,
                    ret, payVars, lockVars>>

(***************************************************************************)
(* s.mutex keeps the other store calls out of an Update*, not a caller     *)
(* that assigns through a pointer the store gave it.  An assignment of the *)
(* State that falls before the Update* assigns the State, or after it has  *)
(* written the line, gives what CallerWrites and the Update* give one      *)
(* after the other.  One that falls between the two gives the State of the *)
(* caller to the record in the table and to the line.  The Update* that    *)
(* leave the State alone write the State the caller assigned wherever the  *)
(* assignment falls before the line is written.                            *)
(***************************************************************************)
\* UpdateJobOfferState(h.id, dealID, state) with the assignment of the
\* caller between jobOffer.State = state and Write(jobOffer)
UpdateJobOfferStateRaced(h, dealID, state, callerState) ==
  LET jobOffer == [h.record EXCEPT !.DealID = dealID, !.State = callerState]
  IN /\ h \in held
     /\ h.shared
     /\ h.kind = "job_offers"
     /\ callerState # state
     /\ CanWrite
     /\ jobOfferMap' = Put(jobOfferMap, h.id, jobOffer)
     /\ logFiles' = Write(logFiles, "job_offers", jobOffer)
     /\ Returned("UpdateJobOfferState", "")
     /\ UNCHANGED <<resourceOfferMap, dealMap, resultMap, matchDecisionMap,
                    payVars, lockVars>>
     /\ Aliases

\* UpdateDealState(h.id, state) with the assignment of the caller between
\* deal.State = state and Write(deal)
UpdateDealStateRaced(h, state, callerState) ==
  LET deal == [h.record EXCEPT !.State = callerState]
  IN /\ h \in held
     /\ h.shared
     /\ h.kind = "deals"
     /\ callerState # state
     /\ CanWrite
     /\ dealMap' = Put(dealMap, h.id, deal)
     /\ logFiles' = Write(logFiles, "deals", deal)
     /\ Returned("UpdateDealState", "")
     /\ UNCHANGED <<jobOfferMap, resourceOfferMap, resultMap,
                    matchDecisionMap, payVars, lockVars>>
     /\ Aliases

\* a caller lets go of a record
CallerDrops(h) ==
  /\ h \in held
  /\ held' = held \ {h}
  /\ UNCHANGED <<storeMaps, logFiles, ret, payVars, lockVars>>

CallerNext ==
  \/ Next
  \/ \E kind \in HeldKinds, id \in JobOfferIDs \cup DealIDs :
       CallerGets(kind, id)
  \/ \E h \in held, state \in DealStateInputs : CallerWrites(h, state)
  \/ Started /\ \E h \in held, u \in OfferUpdateInputs,
                   callerState \in DealStateInputs :
       UpdateJobOfferStateRaced(h, u[1], u[2], callerState)
  \/ Started /\ \E h \in held, state \in DealStateInputs,
                   callerState \in DealStateInputs :
       UpdateDealStateRaced(h, state, callerState)
  \/ \E h \in held : CallerDrops(h)

CallerSpec == Init /\ [][CallerNext]_vars

(***************************************************************************)
(* The store under concurrent callers, statement by statement: a call      *)
(* takes s.mutex, runs its body under it and releases it on return         *)
(* (defer).  The calls taken are AddJobOffer, AddDeal and UpdateDealState  *)
(* (writes, s.mutex.Lock), GetLeaderboardData (a read that takes           *)
(* s.mutex.Lock) and GetDeal (a read, s.mutex.RLock); the other writes and *)
(* reads have the statements of these.                                     *)
(***************************************************************************)
\* data.IsSuccessfulAgreementState (spec 4.3)
IsSuccessfulAgreementState(state) ==
  state = ResultsAccepted \/ state = MediationAccepted

WriteOps == {"AddJobOffer", "AddDeal", "UpdateDealState"}
LockOps == WriteOps \cup {"GetLeaderboardData"}
RLockOps == {"GetDeal"}

KindOf(op) == IF op = "AddJobOffer" THEN "job_offers" ELSE "deals"

\* the calls the callers make
CallInputs ==
  {<<"AddJobOffer", jobOffer>> : jobOffer \in JobOfferInputs}
    \cup {<<"AddDeal", deal>> : deal \in DealInputs}
    \cup {<<"UpdateDealState", [ID |-> id, State |-> state]>> :
            id \in DealIDs, state \in DealStateInputs}
    \cup {<<"GetDeal", [ID |-> id]>> : id \in DealIDs}
    \cup {<<"GetLeaderboardData", [ID |-> ""]>>}

\* the records stored so far, and the callers in a write that has not
\* stored its record yet
TotalApplied ==
  Len(applied["job_offers"]) + Len(applied["resource_offers"])
    + Len(applied["deals"]) + Len(applied["decisions"])
    + Len(applied["results"])

Storing == {t \in Callers : pc[t].op \in WriteOps /\ pc[t].at \in {"lock", "body"}}

\* a caller enters a call
Enter(t, op, arg) ==
  /\ Started
  /\ pc[t].at = "idle"
  /\ op \in WriteOps => TotalApplied + Cardinality(Storing) < MaxWrites
  /\ pc' = [pc EXCEPT ![t] = [Idle EXCEPT !.op = op, !.arg = arg,
                                          !.at = "lock"]]
  /\ UNCHANGED <<storeMaps, logFiles, ret, held, mutex, applied, payVars>>

\* a Lock that does not wait for the lock to be free
LockAtOnce(t) ==
  /\ pc[t].at = "lock"
  /\ pc[t].op \in LockOps
  /\ mutex' = [mutex EXCEPT !.w = TRUE]
  /\ pc' = [pc EXCEPT ![t].at = "body", ![t].before = <<jobOfferMap, dealMap>>]
  /\ UNCHANGED <<storeMaps, logFiles, ret, held, applied, payVars>>

\* s.mutex.Lock()
Lock(t) ==
  /\ pc[t].at = "lock"
  /\ pc[t].op \in LockOps
  /\ ~mutex.w
  /\ mutex.r = 0
  /\ mutex' = [mutex EXCEPT !.w = TRUE]
  /\ pc' = [pc EXCEPT ![t].at = "body", ![t].before = <<jobOfferMap, dealMap>>]
  /\ UNCHANGED <<storeMaps, logFiles, ret, held, applied, payVars>>

\* s.mutex.RLock()
RLock(t) ==
  /\ pc[t].at = "lock"
  /\ pc[t].op \in RLockOps
  /\ ~mutex.w
  /\ mutex' = [mutex EXCEPT !.r = @ + 1]
  /\ pc' = [pc EXCEPT ![t].at = "body"]
  /\ UNCHANGED <<storeMaps, logFiles, ret, held, applied, payVars>>

\* the record a write stores: the argument of an Add*, the deal of the
\* table with its State assigned
PostImage(t) ==
  IF pc[t].op = "UpdateDealState"
    THEN [dealMap[pc[t].arg.ID] EXCEPT !.State = pc[t].arg.State]
    ELSE pc[t].arg

\* s.jobOfferMap[jobOffer.ID] = &jobOffer; s.dealMap[id] = deal
Store(t) ==
  /\ pc[t].at = "body"
  /\ pc[t].op \in WriteOps
  /\ pc[t].op = "UpdateDealState" => pc[t].arg.ID \in DOMAIN dealMap
  /\ jobOfferMap' = IF pc[t].op = "AddJobOffer"
                      THEN Put(jobOfferMap, pc[t].arg.ID, PostImage(t))
                      ELSE jobOfferMap
  /\ dealMap' = IF pc[t].op = "AddJobOffer" THEN dealMap
                ELSE Put(dealMap, pc[t].arg.ID, PostImage(t))
  /\ applied' = [applied EXCEPT ![KindOf(pc[t].op)] = Append(@, PostImage(t))]
  /\ pc' = [pc EXCEPT ![t].at = "write", ![t].arg = PostImage(t)]
  /\ UNCHANGED <<resourceOfferMap, resultMap, matchDecisionMap, logFiles, ret,
                 held, mutex, payVars>>

\* return nil, fmt.Errorf("deal not found: %s", id)
DealNotFound(t) ==
  /\ pc[t].at = "body"
  /\ pc[t].op = "UpdateDealState"
  /\ pc[t].arg.ID \notin DOMAIN dealMap
  /\ pc' = [pc EXCEPT ![t].at = "unlock",
                      ![t].err = "deal not found: " \o pc[t].arg.ID]
  /\ UNCHANGED <<storeMaps, logFiles, ret, held, mutex, applied, payVars>>

\* s.logWriters[kind].Write(record)
WriteLine(t) ==
  /\ pc[t].at = "write"
  /\ logFiles' = Write(logFiles, KindOf(pc[t].op), pc[t].arg)
  /\ pc' = [pc EXCEPT ![t].at = "unlock"]
  /\ UNCHANGED <<storeMaps, ret, held, mutex, applied, payVars>>

\* the entries of the leaderboard: the resource providers with the number
\* of their deals in a successful state
RECURSIVE CountPerResourceProvider(_, _, _)
CountPerResourceProvider(m, ids, counts) ==
  IF ids = {} THEN counts
  ELSE LET id == CHOOSE k \in ids : TRUE
           rp == m[id].ResourceProvider
           currentCount == IF rp \in DOMAIN counts THEN counts[rp] ELSE 0
       IN CountPerResourceProvider(
            m, ids \ {id},
            IF IsSuccessfulAgreementState(m[id].State)
              THEN Put(counts, rp, currentCount + 1) ELSE counts)

\* a leaderboard that counts every deal of a provider
LeaderboardDataOfAllDeals(m) ==
  {[ResourceProvider |-> rp,
    JobCount |-> Cardinality({k \in DOMAIN m : m[k].ResourceProvider = rp})] :
     rp \in {m[k].ResourceProvider : k \in DOMAIN m}}

LeaderboardData(m) ==
  LET countPerResourceProvider ==
        CountPerResourceProvider(m, DOMAIN m, EmptyMap)
  IN {[ResourceProvider |-> rp, JobCount |-> countPerResourceProvider[rp]] :
        rp \in DOMAIN countPerResourceProvider}

\* the body of a read: deal, ok := s.dealMap[id]; for _, deal := range
\* s.dealMap
Read(t) ==
  /\ pc[t].at = "body"
  /\ pc[t].op \in {"GetDeal", "GetLeaderboardData"}
  /\ pc' = [pc EXCEPT ![t].at = "unlock",
                      ![t].seen = IF pc[t].op = "GetDeal"
                                    THEN Lookup(dealMap, pc[t].arg.ID)
                                    ELSE LeaderboardData(dealMap)]
  /\ UNCHANGED <<storeMaps, logFiles, ret, held, mutex, applied, payVars>>

\* defer s.mutex.Unlock() / defer s.mutex.RUnlock(), and the return
Unlock(t) ==
  /\ pc[t].at = "unlock"
  /\ mutex' = IF pc[t].op \in RLockOps THEN [mutex EXCEPT !.r = @ - 1]
              ELSE [mutex EXCEPT !.w = FALSE]
  /\ Returned(pc[t].op, pc[t].err)
  /\ pc' = [pc EXCEPT ![t] = Idle]
  /\ UNCHANGED <<storeMaps, logFiles, held, applied, payVars>>

\* s.logWriters[kind].Write(record) fails: the file gets no line, and the
\* call goes on, as it does not look at what Write returns
WriteLineFails(t) ==
  /\ pc[t].at = "write"
  /\ pc' = [pc EXCEPT ![t].at = "unlock", ![t].werr = "write failed"]
  /\ UNCHANGED <<storeMaps, logFiles, ret, held, mutex, applied, payVars>>

LockNext ==
  \/ \E t \in Callers, c \in CallInputs : Enter(t, c[1], c[2])
  \/ \E t \in Callers : Lock(t)
  \/ \E t \in Callers : RLock(t)
  \/ \E t \in Callers : Store(t)
  \/ \E t \in Callers : DealNotFound(t)
  \/ \E t \in Callers : WriteLine(t)
  \/ \E t \in Callers : Read(t)
  \/ \E t \in Callers : Unlock(t)

LockSpec == Init /\ [][LockNext]_vars

\* the same callers with a log that may refuse a line
FaultNext ==
  \/ LockNext
  \/ \E t \in Callers : WriteLineFails(t)

FaultSpec == Init /\ [][FaultNext]_vars

(***************************************************************************)
(* The end-to-end scenarios of spec section 8, with their literal values.  *)
(***************************************************************************)
\* tokens each party holds before a scenario starts, and the owner when it
\* holds any
ScenarioFunds == 200

\* scenario 2 (challenge, mediator accepts); scenario 1 (happy path) has the
\* same values and does not use the mediation fee
ScenarioTerms ==
  [paymentCollateral |-> 100, resultsCollateral |-> 30,
   timeoutCollateral |-> 5, mediationFee |-> 8, jobCost |-> 20]

\* the scenario values, and the same deal with a mediation fee equal to the
\* timeout collateral
ScenarioTermsSet ==
  {ScenarioTerms, [ScenarioTerms EXCEPT !.mediationFee = 5]}

ScenarioInit ==
  /\ tokenAddress = "token"
  /\ escrowAddress = escrow
  /\ \E f \in {0, ScenarioFunds} :
       /\ balanceOf = [a \in Accounts |->
                         IF a \in Parties THEN ScenarioFunds
                         ELSE IF a = owner THEN f ELSE 0]
       /\ ledgers = [t \in Tokens \ {"token"} |-> balanceOf]
  /\ events = EmptyBag
  /\ \E t \in ScenarioTermsSet : terms = [d \in DealIds |-> t]
  /\ stage = [d \in DealIds |-> "new"]
  /\ escrowIn = [d \in DealIds |-> 0]
  /\ escrowOut = [d \in DealIds |-> 0]
  /\ stray = 0
  /\ invoked = {}

ScenarioStart == ScenarioInit /\ StoreIdle

ScenarioSpec == ScenarioStart /\ [][PayNext]_vars

(***************************************************************************)
(* Properties of the payments contract                                     *)
(***************************************************************************)
RECURSIVE SumAmounts(_, _)
\* the total amount of the events of set S, each counted as often as bag B
\* holds it
SumAmounts(B, S) ==
  IF S = {} THEN 0
  ELSE LET e == CHOOSE x \in S : TRUE
       IN e.amount * B[e] + SumAmounts(B, S \ {e})

\* the total amount of the Payment events of deal d with a direction in dirs
Emitted(d, dirs) ==
  SumAmounts(events,
             {e \in BagToSet(events) : e.dealId = d /\ e.direction \in dirs})

Max0(x) == IF x > 0 THEN x ELSE 0

\* C1: once a deal has reached a terminal transition by a legal sequence of
\* settlement calls, its Payment events balance (the PaidIn amounts equal the
\* Refunded, PaidOut and Slashed amounts) and the tokens the deal leaves in
\* escrow are exactly the amounts emitted as Slashed.
C1_TerminalEventsBalance ==
  \A d \in DealIds :
    stage[d] \in TerminalFns =>
      /\ Emitted(d, {"PaidIn"}) = Emitted(d, {"Refunded", "PaidOut", "Slashed"})
      /\ escrowIn[d] - escrowOut[d] = Emitted(d, {"Slashed"})

\* C2: at every point, the tokens paid out of escrow by calls for a dealId
\* do not exceed the tokens paid into escrow by calls for that dealId.
C2_PayoutWithinPayIn ==
  \A d \in DealIds : escrowOut[d] <= escrowIn[d]

\* the step is call c, made again with the same arguments, and succeeds
Repeated(c) ==
  CASE c.fn = "agreeResourceProvider"
         -> TxAgreeResourceProviderWith(c.dealId, c.sender, c.origin, c.rp)
    [] c.fn = "agreeJobCreator"
         -> TxAgreeJobCreatorWith(c.dealId, c.sender, c.origin)
    [] c.fn = "addResult" -> TxAddResultWith(c.dealId, c.sender, c.origin)
    [] c.fn = "acceptResult" -> TxAcceptResultWith(c.dealId, c.sender, c.origin)
    [] c.fn = "challengeResult"
         -> TxChallengeResultWith(c.dealId, c.sender, c.origin)
    [] c.fn = "mediationAcceptResult"
         -> TxMediationAcceptResultWith(c.dealId, c.sender, c.origin)
    [] c.fn = "mediationRejectResult"
         -> TxMediationRejectResultWith(c.dealId, c.sender, c.origin)
    [] c.fn = "timeoutSubmitResults"
         -> TxTimeoutSubmitResultsWith(c.dealId, c.sender, c.origin)
    [] c.fn = "timeoutJudgeResults"
         -> TxTimeoutJudgeResultsWith(c.dealId, c.sender, c.origin)
    [] OTHER -> TxTimeoutMediateResultWith(c.dealId, c.sender, c.origin)

\* C6: a settlement entry point invoked a second time with the same dealId
\* and arguments moves no tokens and emits no Payment event: the ledger and
\* the event log stay as they were after the first invocation.
C6_SecondCallHasNoEffect ==
  [][\A c \in invoked :
       Repeated(c) => (balanceOf' = balanceOf /\ events' = events)]_vars

\* C9: addResult, called by the controller for the resource provider of an
\* agreed deal, takes max(0, R-T) from the RP into escrow, pays max(0, T-R)
\* from escrow to the RP, and emits (RP, T, TimeoutCollateral, Refunded) and
\* (RP, R, ResultsCollateral, PaidIn), for every R and T the tokens suffice
\* for.
C9_AddResultNetsCollateral ==
  \A d \in DealIds :
    LET R == terms[d].resultsCollateral
        T == terms[d].timeoutCollateral
        tx == addResult(balanceOf, owner, resource_provider, d,
                        resource_provider, R, T)
    IN (/\ stage[d] = "agreed"
        /\ balanceOf[resource_provider] >= Max0(R - T)
        /\ balanceOf[escrowAddress] >= Max0(T - R)
        /\ balanceOf[owner] >= Max0(T - R))
       => /\ tx.ok
          /\ tx.bal = [balanceOf EXCEPT
                         ![resource_provider] = @ - Max0(R - T) + Max0(T - R),
                         ![escrowAddress] = @ + Max0(R - T) - Max0(T - R)]
          /\ tx.ev = <<Payment(d, resource_provider, T,
                               "TimeoutCollateral", "Refunded"),
                       Payment(d, resource_provider, R,
                               "ResultsCollateral", "PaidIn")>>

\* C10: challengeResult, called by the controller for the job creator of a
\* deal whose result was submitted, takes max(0, M-T) from the JC into
\* escrow, pays max(0, T-M) from escrow to the JC and nothing to the RP, and
\* emits (JC, T, TimeoutCollateral, Refunded) and (JC, M, MediationFee,
\* PaidIn), for every T and M the tokens suffice for.
C10_ChallengeResultNetsFee ==
  \A d \in DealIds :
    LET T == terms[d].timeoutCollateral
        M == terms[d].mediationFee
        tx == challengeResult(balanceOf, owner, job_creator, d,
                              resource_provider, job_creator, T, M)
    IN (/\ stage[d] = "submitted"
        /\ balanceOf[job_creator] >= Max0(M - T)
        /\ balanceOf[escrowAddress] >= Max0(T - M)
        /\ balanceOf[owner] >= Max0(T - M))
       => /\ tx.ok
          /\ tx.bal = [balanceOf EXCEPT
                         ![job_creator] = @ - Max0(M - T) + Max0(T - M),
                         ![escrowAddress] = @ + Max0(M - T) - Max0(T - M)]
          /\ tx.ev = <<Payment(d, job_creator, T,
                               "TimeoutCollateral", "Refunded"),
                       Payment(d, job_creator, M, "MediationFee", "PaidIn")>>

(***************************************************************************)
(* Properties of the store (specification Spec).                           *)
(***************************************************************************)
\* the decisions the store holds for a (resource offer, job offer) pair
DecisionsOf(m, ro, jo) ==
  {k \in DOMAIN m : m[k].ResourceOffer = ro /\ m[k].JobOffer = jo}

\* C3: AddMatchDecision on a (resource offer, job offer) pair that already has
\* a decision returns the already-exists error and changes neither the tables
\* nor the logs; a stored decision never changes afterwards in a store that
\* is there, and no pair ever has more than one decision.
C3_MatchDecisionWriteOnce ==
  [][/\ \A ro \in ResourceOfferIDs, jo \in JobOfferIDs, d \in DecisionInputs :
          (/\ DecisionsOf(matchDecisionMap, ro, jo) # {}
           /\ AddMatchDecision(ro, jo, d[1], d[2]))
            => /\ ret'.err = "that match already exists"
               /\ UNCHANGED <<storeMaps, logFiles>>
     /\ Started'
          => \A k \in DOMAIN matchDecisionMap :
               /\ k \in DOMAIN matchDecisionMap'
               /\ matchDecisionMap'[k] = matchDecisionMap[k]
     /\ \A ro \in ResourceOfferIDs, jo \in JobOfferIDs :
          Cardinality(DecisionsOf(matchDecisionMap', ro, jo)) <= 1]_vars

\* a second decision for the pair (r1, j2), the only pair with the key
\* "r1-j2", has been refused and the first is still the one stored
C3_Witness ==
  /\ ret = [op |-> "AddMatchDecision", err |-> "that match already exists"]
  /\ DOMAIN matchDecisionMap = {"r1-j2"}
  /\ matchDecisionMap["r1-j2"] =
       [ResourceOffer |-> "r1", JobOffer |-> "j2", Deal |-> "d1",
        Result |-> TRUE]
  /\ Len(logFiles["decisions"]) = 1

\* C4: after any sequence of store operations, replaying the log files
\* line by line into a fresh store yields, for every table, exactly the
\* in-memory table of the live store.
C4_ReplayReconstructsLiveState ==
  Started
    => LET s == Start(logFiles, Granted)
       IN /\ s.err = ""
          /\ s.jobOfferMap = jobOfferMap
          /\ s.resourceOfferMap = resourceOfferMap
          /\ s.dealMap = dealMap
          /\ s.resultMap = resultMap
          /\ s.matchDecisionMap = matchDecisionMap

\* last-write-wins: the keys of m are the keys of the lines of the file that
\* parse, and each key has the record of the last such line
LastWriteWins(m, file, kind) ==
  LET parsed == {i \in 1..Len(file) : Parses(file[i])}
      key(i) == getID(kind, Unmarshal(file[i]))
  IN /\ DOMAIN m = {key(i) : i \in parsed}
     /\ \A i \in parsed :
          (\A j \in parsed : key(j) = key(i) => j <= i)
            => m[key(i)] = Unmarshal(file[i])

\* C5: right after a start-up that gave a store every table is the
\* last-write-wins fold of its log file: each key of the log has the record
\* of its last line, and a key that is not in the log is not in the table.
C5_StartupIsLastWriteWinsFold ==
  (ret.op = "NewSolverStoreMemory" /\ ret.err = "")
    => \A kind \in kinds : LastWriteWins(Table(kind), logFiles[kind], kind)

\* started on a job offer log whose two lines have the same key and differ
C5_Witness ==
  /\ ret = [op |-> "NewSolverStoreMemory", err |-> ""]
  /\ Len(logFiles["job_offers"]) >= 2
  /\ logFiles["job_offers"][1].json.ID = logFiles["job_offers"][2].json.ID
  /\ logFiles["job_offers"][1] # logFiles["job_offers"][2]
  /\ Parses(logFiles["job_offers"][1]) /\ Parses(logFiles["job_offers"][2])
  /\ logFiles["job_offers"][1].json.ID \in DOMAIN jobOfferMap
  /\ jobOfferMap[logFiles["job_offers"][1].json.ID] =
       logFiles["job_offers"][2].json

\* C7: no offer or deal in the store ever goes from a state to an earlier
\* state of the lifecycle (spec 4.3: the states are entered in the order of
\* their ordinals), whatever AddDeal and Update*State calls are made.
C7_StateNeverGoesBack ==
  [][/\ \A id \in DOMAIN dealMap \cap DOMAIN dealMap' :
          dealMap'[id].State >= dealMap[id].State
     /\ \A id \in DOMAIN jobOfferMap \cap DOMAIN jobOfferMap' :
          jobOfferMap'[id].State >= jobOfferMap[id].State
     /\ \A id \in DOMAIN resourceOfferMap \cap DOMAIN resourceOfferMap' :
          resourceOfferMap'[id].State >= resourceOfferMap[id].State]_vars

\* C8: an offer whose DealID is set keeps that DealID: no call re-points it
\* to another deal or back to no deal.
C8_MatchedOfferStaysMatched ==
  [][/\ \A id \in DOMAIN jobOfferMap \cap DOMAIN jobOfferMap' :
          jobOfferMap[id].DealID # ""
            => jobOfferMap'[id].DealID = jobOfferMap[id].DealID
     /\ \A id \in DOMAIN resourceOfferMap \cap DOMAIN resourceOfferMap' :
          resourceOfferMap[id].DealID # ""
            => resourceOfferMap'[id].DealID = resourceOfferMap[id].DealID]_vars

(***************************************************************************)
(* Properties of the payments contract, continued (specification PaySpec). *)
(***************************************************************************)
\* the PaymentCollateral refunds among the events a step emits
CollateralRefunds(before, after) ==
  {e \in BagToSet(after (-) before) :
     e.reason = "PaymentCollateral" /\ e.direction = "Refunded"}

\* the refunds are the one of amount to the job creator for deal d when
\* amount is positive, and none otherwise
RefundsAre(refunds, d, amount) ==
  refunds = IF amount > 0
              THEN {Payment(d, job_creator, amount,
                            "PaymentCollateral", "Refunded")}
              ELSE {}

\* C11: a successful acceptResult pays the job creator max(0, P-C)+T and the
\* resource provider R+C; a successful mediationAcceptResult pays the job
\* creator max(0, P-C); the refund is between 0 and P, and the
\* PaymentCollateral Refunded event is emitted with that amount when it is
\* positive and not at all when it is 0 (C >= P).
C11_RefundIsFlooredAtZero ==
  [][\A d \in DealIds, sender \in Senders, origin \in Origins :
       LET P == terms[d].paymentCollateral
           C == terms[d].jobCost
           R == terms[d].resultsCollateral
           T == terms[d].timeoutCollateral
           M == terms[d].mediationFee
           refund == Max0(P - C)
       IN /\ 0 <= refund /\ refund <= P
          /\ TxAcceptResultWith(d, sender, origin)
               => /\ balanceOf' =
                       [balanceOf EXCEPT
                          ![job_creator] = @ + refund + T,
                          ![resource_provider] = @ + R + C,
                          ![escrow] = @ - (refund + T + R + C)]
                  /\ RefundsAre(CollateralRefunds(events, events'), d, refund)
          /\ TxMediationAcceptResultWith(d, sender, origin)
               => /\ balanceOf' =
                       [balanceOf EXCEPT
                          ![job_creator] = @ + refund,
                          ![resource_provider] = @ + R + C,
                          ![mediator] = @ + M,
                          ![escrow] = @ - (refund + R + C + M)]
                  /\ RefundsAre(CollateralRefunds(events, events'), d, refund)
    ]_vars

\* deal 1 was accepted with a job cost above its payment collateral: the job
\* creator got its timeout collateral back and no PaymentCollateral refund
C11_Witness ==
  /\ stage[1] = "acceptResult"
  /\ terms[1].jobCost > terms[1].paymentCollateral
  /\ Emitted(1, {"PaidOut"}) = terms[1].jobCost
  /\ ~\E e \in BagToSet(events) :
        e.dealId = 1 /\ e.reason = "PaymentCollateral"
          /\ e.direction = "Refunded"

\* deal d is the only deal settled so far, by the calls of the protocol alone
Alone(d) ==
  /\ stray = 0
  /\ \A e \in DealIds \ {d} : stage[e] = "new"

\* what the controller's next call of a scenario gives on deal d: fn for the
\* party acting in it
ScenarioCall(d, fn) ==
  LET t == terms[d]
      rp == resource_provider
      jc == job_creator
  IN CASE fn = "agreeResourceProvider"
            -> agreeResourceProvider(balanceOf, owner, rp, d, rp,
                                     t.timeoutCollateral)
       [] fn = "agreeJobCreator"
            -> agreeJobCreator(balanceOf, owner, jc, d, jc,
                               t.paymentCollateral, t.timeoutCollateral)
       [] fn = "addResult"
            -> addResult(balanceOf, owner, rp, d, rp, t.resultsCollateral,
                         t.timeoutCollateral)
       [] fn = "acceptResult"
            -> acceptResult(balanceOf, owner, jc, d, rp, jc, t.jobCost,
                            t.paymentCollateral, t.resultsCollateral,
                            t.timeoutCollateral)
       [] fn = "challengeResult"
            -> challengeResult(balanceOf, owner, jc, d, rp, jc,
                               t.timeoutCollateral, t.mediationFee)
       [] OTHER
            -> mediationAcceptResult(balanceOf, owner, mediator, d, rp, jc,
                                     mediator, t.jobCost, t.paymentCollateral,
                                     t.resultsCollateral, t.mediationFee)

\* the net balance changes since the scenario started
NetChange(a) == balanceOf[a] - (IF a \in Parties THEN ScenarioFunds ELSE 0)

\* C12: with P=100, R=30, T=5, M=8, C=20 the calls agreeResourceProvider,
\* agreeJobCreator, addResult, challengeResult, mediationAcceptResult all
\* succeed, and the deal ends with the job creator at -28, the resource
\* provider at +20, the mediator at +8 and the escrow where it started.
C12_ChallengeMediatorAcceptsScenario ==
  \A d \in DealIds :
    (terms[d] = ScenarioTerms /\ Alone(d) /\ balanceOf[owner] = ScenarioFunds)
      => /\ stage[d] = "new" => ScenarioCall(d, "agreeResourceProvider").ok
         /\ stage[d] = "rpAgreed" => ScenarioCall(d, "agreeJobCreator").ok
         /\ stage[d] = "agreed" => ScenarioCall(d, "addResult").ok
         /\ stage[d] = "submitted" => ScenarioCall(d, "challengeResult").ok
         /\ stage[d] = "challenged"
              => ScenarioCall(d, "mediationAcceptResult").ok
         /\ stage[d] = "mediationAcceptResult"
              => /\ NetChange(job_creator) = -28
                 /\ NetChange(resource_provider) = 20
                 /\ NetChange(mediator) = 8
                 /\ NetChange(escrow) = 0

\* C13: with P=100, R=30, T=5, C=20 and parties that hold the tokens they
\* stake, the calls agreeResourceProvider, agreeJobCreator, addResult,
\* acceptResult all succeed, and the deal ends with the job creator at -20,
\* the resource provider at +20 and the escrow where it started.
C13_HappyPathScenario ==
  \A d \in DealIds :
    Alone(d)
      => /\ stage[d] = "new" => ScenarioCall(d, "agreeResourceProvider").ok
         /\ stage[d] = "rpAgreed" => ScenarioCall(d, "agreeJobCreator").ok
         /\ stage[d] = "agreed" => ScenarioCall(d, "addResult").ok
         /\ stage[d] = "submitted" => ScenarioCall(d, "acceptResult").ok
         /\ stage[d] = "acceptResult"
              => /\ NetChange(job_creator) = -20
                 /\ NetChange(resource_provider) = 20
                 /\ NetChange(mediator) = 0
                 /\ NetChange(escrow) = 0

\* C14: a settlement call has an effect (it moves tokens or emits a Payment
\* event) only when its sender is the owner of the contract and its
\* originator is the party acting in it; every other call is rejected.
C14_OnlyOwnerForActingParty ==
  \A c \in invoked : c.sender = owner /\ c.origin \in ActingParties(c.fn)

(***************************************************************************)
(* Properties of the store, continued (specification Spec).                *)
(***************************************************************************)
\* the step returns the not-found error for id and changes no table and no
\* log file
NotFound(what, id) ==
  /\ ret'.err = what \o " not found: " \o id
  /\ UNCHANGED <<storeMaps, logFiles>>

\* C15: every Update operation called with an id that its table does not
\* hold returns the not-found error, makes no record, leaves every table as
\* it was and appends nothing to any log file.
C15_UpdateOfMissingIdIsNotFound ==
  [][/\ ret'.op = "UpdateJobOfferState"
          => \A id \in JobOfferIDs \ DOMAIN jobOfferMap,
                u \in OfferUpdateInputs :
               UpdateJobOfferState(id, u[1], u[2])
                 => NotFound("job offer", id)
     /\ ret'.op = "UpdateResourceOfferState"
          => \A id \in ResourceOfferIDs \ DOMAIN resourceOfferMap,
                u \in OfferUpdateInputs :
               UpdateResourceOfferState(id, u[1], u[2])
                 => NotFound("resource offer", id)
     /\ \A id \in DealIDs \ DOMAIN dealMap :
          /\ ret'.op = "UpdateDealState"
               => \A state \in DealStateInputs :
                    UpdateDealState(id, state) => NotFound("deal", id)
          /\ ret'.op = "UpdateDealMediator"
               => \A med \in MediatorInputs :
                    UpdateDealMediator(id, med) => NotFound("deal", id)
          /\ ret'.op = "UpdateDealTransactionsResourceProvider"
               => \A data \in TransactionsResourceProviderInputs :
                    UpdateDealTransactionsResourceProvider(id, data)
                      => NotFound("deal", id)
          /\ ret'.op = "UpdateDealTransactionsJobCreator"
               => \A data \in TransactionsJobCreatorInputs :
                    UpdateDealTransactionsJobCreator(id, data)
                      => NotFound("deal", id)
          /\ ret'.op = "UpdateDealTransactionsMediator"
               => \A data \in TransactionsMediatorInputs :
                    UpdateDealTransactionsMediator(id, data)
                      => NotFound("deal", id)]_vars

\* an update of job offer x-j2 was refused while the store held job offer j2
\* only
C15_Witness ==
  /\ ret = [op |-> "UpdateJobOfferState", err |-> "job offer not found: x-j2"]
  /\ DOMAIN jobOfferMap = {"j2"}
  /\ Len(logFiles["job_offers"]) = 1

\* the fields of new are those of data that are not "", and those of old
\* elsewhere
MergedOnly(old, new, data) ==
  \A f \in DOMAIN old : new[f] = IF data[f] # "" THEN data[f] ELSE old[f]

\* deal id keeps all it had, but for the transactions of one party
DealKeptBut(id, party) ==
  /\ DOMAIN dealMap' = DOMAIN dealMap
  /\ \A other \in DOMAIN dealMap \ {id} : dealMap'[other] = dealMap[other]
  /\ \A f \in DOMAIN dealMap[id] \ {"Transactions"} :
       dealMap'[id][f] = dealMap[id][f]
  /\ \A p \in DOMAIN dealMap[id].Transactions \ {party} :
       dealMap'[id].Transactions[p] = dealMap[id].Transactions[p]

\* C16: an UpdateDealTransactions call for a party on a deal the store holds
\* overwrites the transaction hashes of that party that the argument gives,
\* and keeps the hashes the argument leaves empty, the transactions of the
\* other two parties and the state, mediator and identity of the deal.
C16_TransactionsMergeNonEmptyOnly ==
  [][\A id \in DOMAIN dealMap \cap DealIDs :
       /\ \A data \in TransactionsResourceProviderInputs :
            UpdateDealTransactionsResourceProvider(id, data)
              => /\ MergedOnly(dealMap[id].Transactions.ResourceProvider,
                               dealMap'[id].Transactions.ResourceProvider,
                               data)
                 /\ DealKeptBut(id, "ResourceProvider")
       /\ \A data \in TransactionsJobCreatorInputs :
            UpdateDealTransactionsJobCreator(id, data)
              => /\ MergedOnly(dealMap[id].Transactions.JobCreator,
                               dealMap'[id].Transactions.JobCreator, data)
                 /\ DealKeptBut(id, "JobCreator")
       /\ \A data \in TransactionsMediatorInputs :
            UpdateDealTransactionsMediator(id, data)
              => /\ MergedOnly(dealMap[id].Transactions.Mediator,
                               dealMap'[id].Transactions.Mediator, data)
                 /\ DealKeptBut(id, "Mediator")]_vars

\* deal d1 has the Agree hash of its resource provider from one update and
\* the AddResult hash from a later one that gave no Agree hash
C16_Witness ==
  /\ ret = [op |-> "UpdateDealTransactionsResourceProvider", err |-> ""]
  /\ "d1" \in DOMAIN dealMap
  /\ dealMap["d1"].Transactions.ResourceProvider.Agree = "0xa"
  /\ dealMap["d1"].Transactions.ResourceProvider.AddResult = "0xb"
  /\ Len(logFiles["deals"]) = 3
  /\ logFiles["deals"][2].json.Transactions.ResourceProvider.Agree = "0xa"

\* every restart on the files that gives a store has this record, and no
\* other, under id in the table
Replayed(files, table, id, record) ==
  \A access \in AccessInputs :
    Start(files, access).err = ""
      => Lookup(Start(files, access)[table], id) = {record}

\* C17: RemoveJobOffer / RemoveResourceOffer take the offer out of the
\* in-memory table only: lookups and list queries no longer give it, the
\* other records and all the log files stay as they are, and a restart
\* that replays the logs and gives a store holds the removed offer again,
\* with the post-image the offer had when it was removed.
C17_RemoveForgetsInMemoryOnly ==
  [][/\ \A id \in JobOfferIDs :
          RemoveJobOffer(id)
            => /\ Lookup(jobOfferMap', id) = {}
               /\ \A query \in JobOfferQueries :
                    \A o \in JobOffersMatching(jobOfferMap', query) :
                      o.ID # id
               /\ \A k \in DOMAIN jobOfferMap \ {id} :
                    Lookup(jobOfferMap', k) = {jobOfferMap[k]}
               /\ UNCHANGED <<resourceOfferMap, dealMap, resultMap,
                              matchDecisionMap, logFiles>>
               /\ id \in DOMAIN jobOfferMap
                    => Replayed(logFiles', "jobOfferMap", id,
                                jobOfferMap[id])
     /\ \A id \in ResourceOfferIDs :
          RemoveResourceOffer(id)
            => /\ Lookup(resourceOfferMap', id) = {}
               /\ \A query \in ResourceOfferQueries :
                    \A o \in ResourceOffersMatching(resourceOfferMap', query) :
                      o.ID # id
               /\ \A k \in DOMAIN resourceOfferMap \ {id} :
                    Lookup(resourceOfferMap', k) = {resourceOfferMap[k]}
               /\ UNCHANGED <<jobOfferMap, dealMap, resultMap,
                              matchDecisionMap, logFiles>>
               /\ id \in DOMAIN resourceOfferMap
                    => Replayed(logFiles', "resourceOfferMap", id,
                                resourceOfferMap[id])]_vars

\* job offer j2 was added, matched to deal d1 and then removed: no query
\* gives it, and the replay of its log holds it as matched to d1
C17_Witness ==
  /\ ret = [op |-> "RemoveJobOffer", err |-> ""]
  /\ GetJobOffer("j2") = {}
  /\ GetJobOffers([JobCreator |-> "", NotMatched |-> FALSE]) = {}
  /\ Len(logFiles["job_offers"]) = 2
  /\ \A i \in 1..2 : Parses(logFiles["job_offers"][i])
  /\ Start(logFiles, Granted).err = ""
  /\ Replayed(logFiles, "jobOfferMap", "j2",
              [ID |-> "j2", DealID |-> "d1", JobCreator |-> "jc1",
               State |-> DealAgreed])

(***************************************************************************)
(* Properties of the records callers hold (specification CallerSpec).      *)
(***************************************************************************)
\* the caller holds the same record after the step as before it
StillHolds(h) ==
  \E g \in held' : g.kind = h.kind /\ g.id = h.id /\ g.record = h.record

\* C18: the records the store hands to its callers are snapshots: an Update*
\* of a record leaves every record a caller holds as it was, and a step in
\* which a caller changes a record it holds leaves the tables of the store
\* as they were.
C18_HeldRecordsAreSnapshots ==
  [][/\ \A id \in JobOfferIDs, u \in OfferUpdateInputs :
          UpdateJobOfferState(id, u[1], u[2])
            => \A h \in held : StillHolds(h)
     /\ \A id \in DealIDs, state \in DealStateInputs :
          UpdateDealState(id, state) => \A h \in held : StillHolds(h)
     /\ \A h \in held, state \in DealStateInputs :
          CallerWrites(h, state) => UNCHANGED storeMaps]_vars

(***************************************************************************)
(* Properties of the store under concurrent callers (specification         *)
(* LockSpec).                                                              *)
(***************************************************************************)
\* the callers inside the body of a call that took Lock, of one that took
\* RLock
Writers == {t \in Callers : pc[t].op \in LockOps /\ pc[t].at \notin {"idle", "lock"}}
Readers == {t \in Callers : pc[t].op \in RLockOps /\ pc[t].at \notin {"idle", "lock"}}

\* the callers that have stored a record and not yet appended its line
Unlogged == {t \in Callers : pc[t].at = "write"}

\* C19: under every interleaving of the callers the writes are serialized
\* by the one lock: no two calls that took Lock are in their bodies at a
\* time, no read is in its body while a write is, the change of the table
\* and the append of its line are one step for every other call (outside
\* the body of the one write in progress the log holds a line for every
\* record stored), and the lines of every log file are in the order in
\* which the records were stored in the table.
C19_WritesAreSerialized ==
  /\ Cardinality(Writers) <= 1
  /\ Writers # {} => Readers = {}
  /\ Unlogged \subseteq Writers
  /\ \A k \in kinds :
       LET logged == RecordsOf(logFiles[k])
       IN /\ Len(logged) <= Len(applied[k])
          /\ logged = SubSeq(applied[k], 1, Len(logged))
          /\ Len(applied[k]) - Len(logged)
               = Cardinality({t \in Unlogged : KindOf(pc[t].op) = k})

\* a caller is between storing a deal and appending its line while the
\* other caller waits for the lock with a write to the same log file
C19_Witness ==
  /\ pc["c1"].op = "UpdateDealState"
  /\ pc["c1"].at = "write"
  /\ pc["c2"].op = "AddDeal"
  /\ pc["c2"].at = "lock"
  /\ Len(applied["deals"]) = 2
  /\ Len(logFiles["deals"]) = 1

(***************************************************************************)
(* Properties of the store with a failing log (specification FaultSpec).   *)
(***************************************************************************)
\* C20: a write whose append to the log failed returns an error to its
\* caller and leaves the tables as the call found them: no change is
\* acknowledged without an error while its line is absent from the log.
C20_FailedAppendReturnsErrorAndNoChange ==
  [][\A t \in Callers :
       Unlock(t) /\ pc[t].werr # ""
         => /\ ret'.err # ""
            /\ <<jobOfferMap, dealMap>>' = pc[t].before]_vars

(***************************************************************************)
(* Properties of the queries (specification Spec).                         *)
(***************************************************************************)
\* the field of a query is not set, or the record has its value
FieldMatches(wanted, value) == wanted = "" \/ value = wanted

\* the name of a state is not set, or it names the state of the record
StateMatches(name, state) ==
  \/ name = ""
  \/ /\ name = "ResultsAccepted"
     /\ state = ResultsAccepted

\* C21: a list query returns exactly the records of its table that match
\* every field of the query that is set: GetJobOffers (job creator, not
\* matched), GetResourceOffers (resource provider, active, not matched),
\* GetDeals (job creator, resource provider, mediator, state); a query with
\* no field set returns every record of the table.
C21_ListQueriesAreConjunctions ==
  /\ \A query \in JobOfferQueries :
       GetJobOffers(query)
         = {o \in Range(jobOfferMap) :
              /\ FieldMatches(query.JobCreator, o.JobCreator)
              /\ query.NotMatched => o.DealID = ""}
  /\ \A query \in ResourceOfferQueries :
       GetResourceOffers(query)
         = {o \in Range(resourceOfferMap) :
              /\ FieldMatches(query.ResourceProvider, o.ResourceProvider)
              /\ query.Active => o.State # MediationRejected
              /\ query.NotMatched => o.DealID = ""}
  /\ \A query \in DealQueries :
       GetDeals(query)
         = {d \in Range(dealMap) :
              /\ FieldMatches(query.JobCreator, d.JobCreator)
              /\ FieldMatches(query.ResourceProvider, d.ResourceProvider)
              /\ FieldMatches(query.Mediator, d.Mediator)
              /\ StateMatches(query.State, d.State)}
  /\ GetJobOffers([JobCreator |-> "", NotMatched |-> FALSE])
       = Range(jobOfferMap)
  /\ GetResourceOffers([ResourceProvider |-> "", Active |-> FALSE,
                        NotMatched |-> FALSE]) = Range(resourceOfferMap)
  /\ GetDeals([JobCreator |-> "", ResourceProvider |-> "", Mediator |-> "",
               State |-> ""]) = Range(dealMap)

\* the store holds two resource offers, r1 free and r1-x matched to d2 and
\* rejected in mediation: the queries for the active and for the unmatched
\* offers of any provider return r1 alone, the query for those of rp1 too
C21_Witness ==
  /\ DOMAIN resourceOfferMap = {"r1", "r1-x"}
  /\ resourceOfferMap["r1-x"].State = MediationRejected
  /\ resourceOfferMap["r1-x"].DealID = "d2"
  /\ GetResourceOffers([ResourceProvider |-> "", Active |-> TRUE,
                        NotMatched |-> FALSE]) = {resourceOfferMap["r1"]}
  /\ GetResourceOffers([ResourceProvider |-> "rp1", Active |-> FALSE,
                        NotMatched |-> TRUE]) = {resourceOfferMap["r1"]}

(***************************************************************************)
(* Properties of the leaderboard (specification LockSpec).                 *)
(***************************************************************************)
\* the deals of a provider that are in a successful terminal state
SuccessfulDeals(rp) ==
  {k \in DOMAIN dealMap :
     /\ dealMap[k].ResourceProvider = rp
     /\ dealMap[k].State \in {ResultsAccepted, MediationAccepted}}

\* C22: GetLeaderboardData returns, for every resource provider with a deal
\* in a successful terminal state (ResultsAccepted, MediationAccepted),
\* exactly one entry, whose count is the number of the deals of the provider
\* that are in such a state now; a provider without such a deal has no
\* entry; no step of the call changes a table or a log file.
C22_LeaderboardCountsSuccessfulDeals ==
  [][\A t \in Callers :
       /\ Read(t) /\ pc[t].op = "GetLeaderboardData"
            => /\ \A rp \in {"rp1", "rp2"} :
                    {e \in pc'[t].seen : e.ResourceProvider = rp}
                      = IF SuccessfulDeals(rp) = {} THEN {}
                        ELSE {[ResourceProvider |-> rp,
                               JobCount |-> Cardinality(SuccessfulDeals(rp))]}
               /\ \A e \in pc'[t].seen : e.ResourceProvider \in {"rp1", "rp2"}
       /\ pc[t].op = "GetLeaderboardData" /\ pc'[t] # pc[t]
            => UNCHANGED <<storeMaps, logFiles>>]_vars

\* deal d1 of rp1 is in negotiation and deal d2 of rp2 is accepted: the
\* leaderboard a caller has read is the one entry (rp2, 1)
C22_Witness ==
  /\ DOMAIN dealMap = {"d1", "d2"}
  /\ dealMap["d1"].ResourceProvider = "rp1"
  /\ dealMap["d1"].State = DealNegotiating
  /\ dealMap["d2"].ResourceProvider = "rp2"
  /\ dealMap["d2"].State = ResultsAccepted
  /\ pc["c1"].op = "GetLeaderboardData"
  /\ pc["c1"].at = "unlock"
  /\ pc["c1"].seen = {[ResourceProvider |-> "rp2", JobCount |-> 1]}

(***************************************************************************)
(* Properties of the replay of a damaged log (specification Spec).         *)
(***************************************************************************)
\* the lines of a file that json.Unmarshal accepts, in their order
ParseableLines(file) == SelectSeq(file, Parses)

\* the log files hold no line the scanner gives up on
NoLongLine(files) ==
  \A kind \in kinds : \A i \in 1..Len(files[kind]) : ~files[kind][i].long

\* C23: a line of a log file that json.Unmarshal rejects is skipped by the
\* replay and the replay goes on.  A start-up fails only on a file
\* os.OpenFile refuses or on a line longer than the scanner takes, never on
\* a line that does not parse; it succeeds when there is neither, whatever
\* lines do not parse; after a start-up that succeeded every table is the
\* last-write-wins fold of the lines of its file that parse, and a line
\* that parses after a damaged line is applied: its record is in the table
\* unless a later line has its key.
C23_ReplaySkipsCorruptLines ==
  /\ [](ret.op = "NewSolverStoreMemory"
          => /\ ret.err # ""
                  => \/ ret.err = ErrTooLong /\ ~NoLongLine(logFiles)
                     \/ \E kind \in kinds : ret.err = ErrPermission(kind)
             /\ ret.err = ""
                  => \A kind \in kinds :
                       LET file == logFiles[kind]
                           key(i) == getID(kind, file[i].json)
                       IN /\ LastWriteWins(Table(kind), ParseableLines(file),
                                           kind)
                          /\ \A i \in 1..Len(file) :
                               ~Parses(file[i])
                                 => \A j \in (i + 1)..Len(file) :
                                      Parses(file[j])
                                        => /\ key(j) \in DOMAIN Table(kind)
                                           /\ \/ Table(kind)[key(j)]
                                                   = file[j].json
                                              \/ \E l \in (j + 1)..Len(file) :
                                                   /\ Parses(file[l])
                                                   /\ key(l) = key(j))
  /\ [][(/\ ret'.op = "NewSolverStoreMemory"
          /\ NoLongLine(logFiles)
          /\ NewSolverStoreMemoryWith(Granted))
          => ret'.err = ""]_vars

\* started on a job offer log whose second line is damaged and whose third
\* line parses: the table has the record of the third line, which is
\* neither the record of the first line nor that of the damaged one
C23_Witness ==
  /\ ret = [op |-> "NewSolverStoreMemory", err |-> ""]
  /\ Len(logFiles["job_offers"]) = 3
  /\ Parses(logFiles["job_offers"][1])
  /\ ~Parses(logFiles["job_offers"][2])
  /\ Parses(logFiles["job_offers"][3])
  /\ logFiles["job_offers"][3].json.ID = "j2"
  /\ logFiles["job_offers"][3].json # logFiles["job_offers"][1].json
  /\ logFiles["job_offers"][3].json # logFiles["job_offers"][2].json
  /\ GetJobOffer("j2") = {logFiles["job_offers"][3].json}

(***************************************************************************)
(* Properties of the failure settlements (specification PaySpec).          *)
(***************************************************************************)
\* C24: a successful mediationRejectResult pays exactly P to the job creator
\* and M to the mediator out of escrow and nothing to the resource provider,
\* whose results collateral R stays in escrow, and emits exactly three
\* events: (JC, P, PaymentCollateral, Refunded), (mediator, M, MediationFee,
\* PaidOut) and (RP, R, ResultsCollateral, Slashed).
C24_MediationRejectSlashesProvider ==
  [][\A d \in DealIds, sender \in Senders, origin \in Origins :
       LET P == terms[d].paymentCollateral
           R == terms[d].resultsCollateral
           M == terms[d].mediationFee
       IN TxMediationRejectResultWith(d, sender, origin)
            => /\ balanceOf' =
                    [balanceOf EXCEPT
                       ![job_creator] = @ + P,
                       ![mediator] = @ + M,
                       ![escrow] = @ - (P + M)]
               /\ balanceOf'[resource_provider] = balanceOf[resource_provider]
               /\ events' =
                    events (+)
                      BagOfSeq(<<Payment(d, job_creator, P,
                                         "PaymentCollateral", "Refunded"),
                                 Payment(d, mediator, M,
                                         "MediationFee", "PaidOut"),
                                 Payment(d, resource_provider, R,
                                         "ResultsCollateral", "Slashed")>>)
    ]_vars

\* the results of deal 1 were rejected in mediation at the end of a legal
\* sequence of calls: the Slashed event for the results collateral of the
\* resource provider is there, and none that refunds it
C24_Witness ==
  /\ stage[1] = "mediationRejectResult"
  /\ terms[1].resultsCollateral > 0
  /\ Payment(1, resource_provider, terms[1].resultsCollateral,
             "ResultsCollateral", "Slashed") \in BagToSet(events)
  /\ Payment(1, mediator, terms[1].mediationFee, "MediationFee", "PaidOut")
       \in BagToSet(events)
  /\ ~\E e \in BagToSet(events) :
        e.dealId = 1 /\ e.reason = "ResultsCollateral"
          /\ e.direction = "Refunded"

\* C25: a successful timeoutJudgeResults pays exactly R to the resource
\* provider and nothing to the job creator, and emits exactly two events: a
\* Refunded event for the RP of amount R with the reason ResultsCollateral
\* and a Slashed event for the JC of amount T with the reason
\* TimeoutCollateral.
C25_TimeoutJudgeRefundsResultsCollateral ==
  [][\A d \in DealIds, sender \in Senders, origin \in Origins :
       LET R == terms[d].resultsCollateral
           T == terms[d].timeoutCollateral
       IN TxTimeoutJudgeResultsWith(d, sender, origin)
            => /\ balanceOf' =
                    [balanceOf EXCEPT
                       ![resource_provider] = @ + R,
                       ![escrow] = @ - R]
               /\ balanceOf'[job_creator] = balanceOf[job_creator]
               /\ events' =
                    events (+)
                      BagOfSeq(<<Payment(d, resource_provider, R,
                                         "ResultsCollateral", "Refunded"),
                                 Payment(d, job_creator, T,
                                         "TimeoutCollateral", "Slashed")>>)
    ]_vars

(***************************************************************************)
(* Properties of the key of a match decision (specification Spec).         *)
(***************************************************************************)
\* C26: the key of a match decision identifies its (resource offer, job
\* offer) pair: two different pairs have different keys, also when an id
\* has a "-" in it; so AddMatchDecision on a pair that has no decision
\* succeeds and stores it, and GetMatchDecision gives the decision of the
\* pair it is asked for or none.
C26_MatchKeyIdentifiesPair ==
  [][/\ \A p \in MatchPairs, q \in MatchPairs :
          p # q => getMatchID(p[1], p[2]) # getMatchID(q[1], q[2])
     /\ \A p \in MatchPairs, d \in DecisionInputs :
          (/\ DecisionsOf(matchDecisionMap, p[1], p[2]) = {}
           /\ AddMatchDecision(p[1], p[2], d[1], d[2]))
            => /\ ret'.err = ""
               /\ DecisionsOf(matchDecisionMap', p[1], p[2]) # {}
     /\ \A p \in MatchPairs :
          \A decision \in GetMatchDecision(p[1], p[2]) :
            decision.ResourceOffer = p[1] /\ decision.JobOffer = p[2]]_vars

====
